---- MODULE Spec2Model ----
(***************************************************************************)
(* Data availability of blob sidecars in the beacon chain:                 *)
(*  - beacon_chain/src/blob_verification.rs: certification of a            *)
(*    BlockWrapper into an AvailableBlock, the availability verifier and   *)
(*    the two gossip validators (Spec, SpecGossip), and the gossip         *)
(*    validator taken lock by lock next to a task that holds the proposer  *)
(*    cache or the public-key cache (SpecGossipLocks);                     *)
(*  - beacon_chain/src/blob_sidecar_cache.rs: the LRU cache of sidecars,   *)
(*    call by call (SpecCache) and shared by tasks (SpecCacheTasks);       *)
(*  - beacon_chain/src/fetch_blobs.rs: fetch_blobs_and_publish and its     *)
(*    compute_data_columns task (SpecFetch);                               *)
(*  - consensus/types/src/blob_sidecar.rs: BlobIdentifier and its order,   *)
(*    BlobSidecar and the ways to make one (SpecSidecar);                  *)
(*  - light_client/src/store.rs and light_client_sync_service.rs: the      *)
(*    light-client store and the service that syncs it (SpecLightClient).  *)
(*                                                                         *)
(* A call is recorded in op, arg and ret; vlog holds the verifier          *)
(* invocations of a certification, fetch_log what a fetch did to the       *)
(* outside.                                                                *)
(***************************************************************************)
EXTENDS Integers, Sequences, FiniteSets, TLC

\* ---------------------------------------------------------------- bounds
MaxSlot == 2
NumRoots == 2
NumValidators == 2

\* E::slots_per_epoch()
SlotsPerEpoch == 2

\* The light client: the slots its clock and its headers range over, the
\* longest answer of get_light_client_updates, the iterations of the catch-up
\* loop that are followed.
LcMaxSlot == 3
MaxUpdates == 1
MaxSyncIterations == 2
\* spec.seconds_per_slot and spec.epochs_per_sync_committee_period
SecondsPerSlot == 1
EpochsPerSyncCommitteePeriod == 1

\* ---------------------------------------------------------------- Option / Result
None == <<>>
Some(x) == <<x>>
IsSome(o) == o # <<>>
Unwrap(o) == o[1]

Ok(v) == [ok |-> TRUE, val |-> <<v>>, err |-> <<>>]
Err(e) == [ok |-> FALSE, val |-> <<>>, err |-> <<e>>]
IsOk(r) == r.ok
IsErr(r) == ~r.ok
Unit == "()"

\* BlobError: kind is the variant, inner the wrapped BeaconChainError (if any),
\* a and b the variant's fields in declaration order.
BlobError(kind, inner, a, b) == [kind |-> kind, inner |-> inner, a |-> a, b |-> b]
ErrKind(r) == IF r.ok THEN "Ok" ELSE r.err[1].kind

\* ---------------------------------------------------------------- domains
Slots == 0..MaxSlot
Roots == 1..NumRoots
Validators == 0..(NumValidators - 1)

PreEip4844Forks == {"Base", "Altair", "Merge", "Capella"}
Forks == PreEip4844Forks \cup {"Eip4844"}

\* Slot::epoch and Epoch::start_slot
epoch(slot) == slot \div SlotsPerEpoch
start_slot(ep) == ep * SlotsPerEpoch

\* Blobs are 1, 2; the commitment to blob b is 10 + b; the versioned hash of
\* commitment c is 100 + c.
blob_to_kzg_commitment(b) == 10 + b
kzg_commitment_to_versioned_hash(c) == 100 + c

BlobLists == {<<>>, <<2>>, <<1, 2>>}
CommitmentLists == {<<>>, <<12>>, <<11, 12>>}
\* a transaction is the list of versioned hashes it references
TransactionLists == {<<>>, <<<<112>>>>, <<<<111>>, <<112>>>>}

\* SignedBeaconBlock: the variant (fork), the slot, and the two body parts the
\* certification reads.  Only the Eip4844 variant has them, and its payload
\* may come without its transactions (transactions() is an Option).
PreEip4844Blocks ==
    [fork : PreEip4844Forks, slot : Slots,
     blob_kzg_commitments : {None}, transactions : {None}]
Eip4844Blocks ==
    [fork : {"Eip4844"}, slot : Slots,
     blob_kzg_commitments : {Some(c) : c \in CommitmentLists},
     transactions : {None} \cup {Some(t) : t \in TransactionLists}]
Blocks == PreEip4844Blocks \cup Eip4844Blocks

\* BlobsSidecar (the bundle that travels with a block)
BlobsSidecars ==
    [beacon_block_root : Roots, beacon_block_slot : Slots,
     blobs : BlobLists, kzg_aggregated_proof : {"good", "bad", "malformed"}]

\* BlockWrapper::Block(block) | BlockWrapper::BlockAndBlob(block, blobs_sidecar)
BlockWrapper_new(block, blobs_sidecar) ==
    IF IsSome(blobs_sidecar)
    THEN [tag |-> "BlockAndBlob", block |-> block, blobs_sidecar |-> blobs_sidecar]
    ELSE [tag |-> "Block", block |-> block, blobs_sidecar |-> None]

BlockWrappers ==
    {BlockWrapper_new(b, s) : b \in Blocks, s \in {None} \cup {Some(x) : x \in BlobsSidecars}}

\* ---------------------------------------------------------------- chain state
VARIABLES
    slot_clock,                  \* Option<Slot>: slot_clock.now_with_future_tolerance(..)
    finalized_epoch,             \* head().finalized_checkpoint().epoch
    data_availability_boundary,  \* Option<Epoch>: chain.data_availability_boundary()
    kzg,                         \* Option<Kzg>: the trusted setup, when loaded
    fork_choice,                 \* block roots known to fork choice
    early_attester_cache,        \* Option<root>: the one block the cache holds
    validator_pubkey_cache,      \* number of validators whose public key is cached
    op,                          \* the call made
    arg,                         \* its arguments
    ret,                         \* what it returned
    vlog                         \* the verify_data_availability invocations it made

chainVars == <<slot_clock, finalized_epoch, data_availability_boundary, kzg,
               fork_choice, early_attester_cache, validator_pubkey_cache>>
callVars == <<op, arg, ret, vlog>>

\* ---------------------------------------------------------------- the two cache locks
VARIABLES
    beacon_proposer_cache_lock,      \* chain.beacon_proposer_cache: "free" or "other"
    validator_pubkey_cache_lock,     \* chain.validator_pubkey_cache: "free" or "other"
    gossip_pc                        \* where a stepwise gossip validation stands

lockVars == <<beacon_proposer_cache_lock, validator_pubkey_cache_lock, gossip_pc>>

\* ---------------------------------------------------------------- the sidecar cache
VARIABLES
    blobs_cache,     \* BlobSidecarsCache.blobs: the LruCache behind the mutex
    cache_pre,       \* the cache as the last cache call found it
    prev_call,       \* the cache call before the last one
    last_put,        \* for every key, when it was last put (0: never)
    cache_ops        \* cache calls made so far

cacheVars == <<blobs_cache, cache_pre, prev_call, last_put, cache_ops>>

\* ---------------------------------------------------------------- tasks sharing the cache
VARIABLES
    blobs_mutex,     \* the Mutex around the LruCache: 0 when free, else the holding task
    tasks            \* for every task: where it stands, its call, what it read and returned

taskVars == <<blobs_mutex, tasks>>

\* ---------------------------------------------------------------- fetching blobs from the engine
VARIABLES
    fetch_pc,                   \* where fetch_blobs_and_publish stands
    fixed_blob_sidecar_list,    \* the FixedBlobSidecarList it fills
    fetch_log,                  \* what it and its task did to the outside, in order
    build_pc,                   \* where the compute_data_columns task stands
    build_blobs,                \* the blobs moved into that task
    data_columns_channel        \* the mpsc channel of capacity one

fetchVars == <<fetch_pc, fixed_blob_sidecar_list, fetch_log, build_pc, build_blobs,
               data_columns_channel>>

\* ---------------------------------------------------------------- the light client
VARIABLES
    store,           \* Option<LightClientStore>: None until initialize_light_client_store
    store_pre,       \* the store as the last applied update found it
    applied,         \* the last applied update, and how many were applied (2: two or more)
    sync_pc,         \* where LightClientSyncService::start stands
    sync_frame,      \* the locals of sync()
    join_pending     \* the futures of update() that have not completed

lcVars == <<store, store_pre, applied, sync_pc, sync_frame, join_pending>>

\* Everything outside the chain state and the call record.
restVars == <<lockVars, cacheVars, taskVars, fetchVars, lcVars>>
\* ... and outside the two cache locks, the sidecar cache, the cache tasks.
lockRest == <<cacheVars, taskVars, fetchVars, lcVars>>
cacheRest == <<lockVars, taskVars, fetchVars, lcVars>>
taskRest == <<lockVars, prev_call, last_put, cache_ops, fetchVars, lcVars>>
fetchRest == <<lockVars, cacheVars, taskVars, lcVars>>
lcRest == <<lockVars, cacheVars, taskVars, fetchVars>>
vars == <<chainVars, callVars, restVars>>

NoArg == [none |-> TRUE]
NoRet == [ok |-> FALSE, val |-> <<>>, err |-> <<>>]

\* ---------------------------------------------------------------- collaborators
Flatten(seqs) ==
    LET F[i \in 0..Len(seqs)] == IF i = 0 THEN <<>> ELSE F[i - 1] \o seqs[i]
    IN F[Len(seqs)]

\* state_processing: the versioned hashes of the blob transactions, in order,
\* are exactly those of the declared commitments.
verify_kzg_commitments_against_transactions(transactions, kzg_commitments) ==
    Flatten(transactions)
        = [i \in 1..Len(kzg_commitments) |->
               kzg_commitment_to_versioned_hash(kzg_commitments[i])]

\* kzg_utils::validate_blobs_sidecar: Ok(false) unless the bundle is for this
\* slot and root and has one blob per commitment; a malformed proof is an error
\* of the verifier; otherwise the aggregated proof must open the commitments.
validate_blobs_sidecar(slot, beacon_block_root, expected_kzg_commitments, blobs_sidecar) ==
    IF \/ slot # blobs_sidecar.beacon_block_slot
       \/ beacon_block_root # blobs_sidecar.beacon_block_root
       \/ Len(blobs_sidecar.blobs) # Len(expected_kzg_commitments)
    THEN Ok(FALSE)
    ELSE IF blobs_sidecar.kzg_aggregated_proof = "malformed"
    THEN Err("KzgError")
    ELSE Ok(/\ blobs_sidecar.kzg_aggregated_proof = "good"
            /\ \A i \in 1..Len(expected_kzg_commitments) :
                   blob_to_kzg_commitment(blobs_sidecar.blobs[i]) = expected_kzg_commitments[i])

\* body().blob_kzg_commitments(): Err for a variant without the field
blob_kzg_commitments(block) ==
    IF IsSome(block.blob_kzg_commitments)
    THEN Ok(Unwrap(block.blob_kzg_commitments))
    ELSE Err("IncorrectStateVariant")

\* body().execution_payload_eip4844().map(|payload| payload.transactions())
execution_payload_eip4844_transactions(block) ==
    IF block.fork = "Eip4844" THEN Ok(block.transactions) ELSE Err("IncorrectStateVariant")

ReconstructionOutcomes == {"Ok", "UnavailableBlobs", "InconsistentFork"}

\* SignedBeaconBlock::reconstruct_empty_blobs(Some(block_root)); which blocks it
\* accepts is the collaborator's choice (outcome).
reconstruct_empty_blobs(block, block_root, outcome) ==
    IF outcome = "Ok"
    THEN Ok([beacon_block_root |-> block_root, beacon_block_slot |-> block.slot,
             blobs |-> <<>>, kzg_aggregated_proof |-> "good"])
    ELSE Err(outcome)

\* ---------------------------------------------------------------- availability verifier
\* mutant: the trusted setup is looked up before the commitments are compared
verify_data_availability_setup_first(blob_sidecar, kzg_commitments, transactions, block_slot, block_root, kzg_opt) ==
    IF ~IsSome(kzg_opt)
    THEN Err(BlobError("TrustedSetupNotInitialized", "", 0, 0))
    ELSE IF ~verify_kzg_commitments_against_transactions(transactions, kzg_commitments)
    THEN Err(BlobError("TransactionCommitmentMismatch", "", 0, 0))
    ELSE LET valid == validate_blobs_sidecar(block_slot, block_root, kzg_commitments, blob_sidecar)
         IN IF IsErr(valid) THEN Err(BlobError("KzgError", "", 0, 0))
            ELSE IF ~Unwrap(valid.val) THEN Err(BlobError("InvalidKzgProof", "", 0, 0))
            ELSE Ok(Unit)

verify_data_availability(blob_sidecar, kzg_commitments, transactions, block_slot, block_root, kzg_opt) ==
    IF ~verify_kzg_commitments_against_transactions(transactions, kzg_commitments)
    THEN Err(BlobError("TransactionCommitmentMismatch", "", 0, 0))
    ELSE IF ~IsSome(kzg_opt)
    THEN Err(BlobError("TrustedSetupNotInitialized", "", 0, 0))
    ELSE LET valid == validate_blobs_sidecar(block_slot, block_root, kzg_commitments, blob_sidecar)
         IN IF IsErr(valid) THEN Err(BlobError("KzgError", "", 0, 0))
            ELSE IF ~Unwrap(valid.val) THEN Err(BlobError("InvalidKzgProof", "", 0, 0))
            ELSE Ok(Unit)

\* ---------------------------------------------------------------- AvailableBlock
AvailableBlockInner_Block(beacon_block) ==
    [tag |-> "Block", beacon_block |-> beacon_block, blobs_sidecar |-> None]
AvailableBlockInner_BlockAndBlob(beacon_block, blobs_sidecar) ==
    [tag |-> "BlockAndBlob", beacon_block |-> beacon_block, blobs_sidecar |-> Some(blobs_sidecar)]

\* mutant: the pre-Eip4844 variants are not told apart from Eip4844
AvailableBlock_new_any_fork(beacon_block, block_root, da_check_required, outcome) ==
    IF da_check_required = "Yes"
    THEN LET blobs_sidecar == reconstruct_empty_blobs(beacon_block, block_root, outcome)
         IN IF IsErr(blobs_sidecar)
            THEN Err(BlobError(Unwrap(blobs_sidecar.err), "", 0, 0))
            ELSE Ok(AvailableBlockInner_BlockAndBlob(beacon_block, Unwrap(blobs_sidecar.val)))
    ELSE Ok(AvailableBlockInner_Block(beacon_block))

\* mutant: no empty bundle is reconstructed when the DA check is required
AvailableBlock_new_no_reconstruction(beacon_block, block_root, da_check_required, outcome) ==
    Ok(AvailableBlockInner_Block(beacon_block))

\* AvailableBlock::new
AvailableBlock_new(beacon_block, block_root, da_check_required, outcome) ==
    IF beacon_block.fork \in {"Base", "Altair", "Capella", "Merge"}
    THEN Ok(AvailableBlockInner_Block(beacon_block))
    ELSE IF da_check_required = "Yes"
    THEN LET blobs_sidecar == reconstruct_empty_blobs(beacon_block, block_root, outcome)
         IN IF IsErr(blobs_sidecar)
            THEN Err(BlobError(Unwrap(blobs_sidecar.err), "", 0, 0))
            ELSE Ok(AvailableBlockInner_BlockAndBlob(beacon_block, Unwrap(blobs_sidecar.val)))
    ELSE Ok(AvailableBlockInner_Block(beacon_block))

\* mutant: sidecars are accepted with a pre-Eip4844 block
new_with_blobs_any_fork(beacon_block, blobs_sidecar, da_check_required) ==
    IF da_check_required = "Yes"
    THEN Ok(AvailableBlockInner_BlockAndBlob(beacon_block, blobs_sidecar))
    ELSE Ok(AvailableBlockInner_Block(beacon_block))

\* mutant: the sidecars are kept when the DA check is not required
new_with_blobs_keeps_unverified(beacon_block, blobs_sidecar, da_check_required) ==
    IF beacon_block.fork \in {"Base", "Altair", "Capella", "Merge"}
    THEN Err(BlobError("InconsistentFork", "", 0, 0))
    ELSE Ok(AvailableBlockInner_BlockAndBlob(beacon_block, blobs_sidecar))

\* AvailableBlock::new_with_blobs
new_with_blobs(beacon_block, blobs_sidecar, da_check_required) ==
    IF beacon_block.fork \in {"Base", "Altair", "Capella", "Merge"}
    THEN Err(BlobError("InconsistentFork", "", 0, 0))
    ELSE IF da_check_required = "Yes"
    THEN Ok(AvailableBlockInner_BlockAndBlob(beacon_block, blobs_sidecar))
    ELSE Ok(AvailableBlockInner_Block(beacon_block))

\* AvailableBlock::blobs
blobs(available_block) ==
    IF available_block.tag = "Block" THEN None ELSE available_block.blobs_sidecar

\* AvailableBlock::deconstruct
deconstruct(available_block) ==
    IF available_block.tag = "Block"
    THEN <<available_block.beacon_block, None>>
    ELSE <<available_block.beacon_block, available_block.blobs_sidecar>>

\* ---------------------------------------------------------------- certification
\* mutant: the boundary epoch itself is not covered
da_check_required_after_boundary(block_slot, boundary_opt) ==
    IF ~IsSome(boundary_opt) THEN "No"
    ELSE IF epoch(block_slot) > Unwrap(boundary_opt) THEN "Yes" ELSE "No"

\* the flag computed at the head of into_available_block
da_check_required_for(block_slot, boundary_opt) ==
    IF ~IsSome(boundary_opt) THEN "No"
    ELSE IF epoch(block_slot) >= Unwrap(boundary_opt) THEN "Yes" ELSE "No"

\* A call's outcome: what it returned and the verifier invocations it made.
Outcome(r, log) == [ret |-> r, vlog |-> log]

\* mutant: the supplied bundle is wrapped without running the verifier
into_available_block_unverified(wrapper, block_root, boundary_opt, kzg_opt, outcome) ==
    LET da_check_required == da_check_required_for(wrapper.block.slot, boundary_opt)
        block == wrapper.block
    IN IF wrapper.tag = "Block"
       THEN Outcome(AvailableBlock_new(block, block_root, da_check_required, outcome), <<>>)
       ELSE Outcome(new_with_blobs(block, Unwrap(wrapper.blobs_sidecar), da_check_required),
                    <<>>)

\* mutant: the bundle is wrapped whatever the verifier said
into_available_block_ignores_verdict(wrapper, block_root, boundary_opt, kzg_opt, outcome) ==
    LET da_check_required == da_check_required_for(wrapper.block.slot, boundary_opt)
        block == wrapper.block
    IN IF wrapper.tag = "Block"
       THEN Outcome(AvailableBlock_new(block, block_root, da_check_required, outcome), <<>>)
       ELSE LET blobs_sidecar == Unwrap(wrapper.blobs_sidecar)
            IN IF da_check_required = "Yes"
               THEN LET kzg_commitments == blob_kzg_commitments(block)
                        transactions == execution_payload_eip4844_transactions(block)
                    IN IF IsErr(kzg_commitments)
                       THEN Outcome(Err(BlobError("KzgCommitmentMissing", "", 0, 0)), <<>>)
                       ELSE IF IsErr(transactions) \/ ~IsSome(Unwrap(transactions.val))
                       THEN Outcome(Err(BlobError("TransactionsMissing", "", 0, 0)), <<>>)
                       ELSE LET verified ==
                                    verify_data_availability(
                                        blobs_sidecar, Unwrap(kzg_commitments.val),
                                        Unwrap(Unwrap(transactions.val)), block.slot,
                                        block_root, kzg_opt)
                                call == [blob_sidecar |-> blobs_sidecar,
                                         kzg_commitments |-> Unwrap(kzg_commitments.val),
                                         block_slot |-> block.slot,
                                         block_root |-> block_root,
                                         result |-> verified]
                            IN Outcome(new_with_blobs(block, blobs_sidecar, da_check_required),
                                       <<call>>)
               ELSE Outcome(new_with_blobs(block, blobs_sidecar, da_check_required), <<>>)

\* mutant: the transactions are looked for before the commitments
into_available_block_transactions_first(wrapper, block_root, boundary_opt, kzg_opt, outcome) ==
    LET da_check_required == da_check_required_for(wrapper.block.slot, boundary_opt)
        block == wrapper.block
    IN IF wrapper.tag = "Block"
       THEN Outcome(AvailableBlock_new(block, block_root, da_check_required, outcome), <<>>)
       ELSE LET blobs_sidecar == Unwrap(wrapper.blobs_sidecar)
            IN IF da_check_required = "Yes"
               THEN LET kzg_commitments == blob_kzg_commitments(block)
                        transactions == execution_payload_eip4844_transactions(block)
                    IN IF IsErr(transactions) \/ ~IsSome(Unwrap(transactions.val))
                       THEN Outcome(Err(BlobError("TransactionsMissing", "", 0, 0)), <<>>)
                       ELSE IF IsErr(kzg_commitments)
                       THEN Outcome(Err(BlobError("KzgCommitmentMissing", "", 0, 0)), <<>>)
                       ELSE LET verified ==
                                    verify_data_availability(
                                        blobs_sidecar, Unwrap(kzg_commitments.val),
                                        Unwrap(Unwrap(transactions.val)), block.slot,
                                        block_root, kzg_opt)
                                call == [blob_sidecar |-> blobs_sidecar,
                                         kzg_commitments |-> Unwrap(kzg_commitments.val),
                                         block_slot |-> block.slot,
                                         block_root |-> block_root,
                                         result |-> verified]
                            IN IF IsErr(verified)
                               THEN Outcome(verified, <<call>>)
                               ELSE Outcome(new_with_blobs(block, blobs_sidecar, da_check_required),
                                            <<call>>)
               ELSE Outcome(new_with_blobs(block, blobs_sidecar, da_check_required), <<>>)

\* <BlockWrapper as IntoAvailableBlock>::into_available_block
into_available_block(wrapper, block_root, boundary_opt, kzg_opt, outcome) ==
    LET da_check_required == da_check_required_for(wrapper.block.slot, boundary_opt)
        block == wrapper.block
    IN IF wrapper.tag = "Block"
       THEN Outcome(AvailableBlock_new(block, block_root, da_check_required, outcome), <<>>)
       ELSE LET blobs_sidecar == Unwrap(wrapper.blobs_sidecar)
            IN IF da_check_required = "Yes"
               THEN LET kzg_commitments == blob_kzg_commitments(block)
                        transactions == execution_payload_eip4844_transactions(block)
                    IN IF IsErr(kzg_commitments)
                       THEN Outcome(Err(BlobError("KzgCommitmentMissing", "", 0, 0)), <<>>)
                       ELSE IF IsErr(transactions) \/ ~IsSome(Unwrap(transactions.val))
                       THEN Outcome(Err(BlobError("TransactionsMissing", "", 0, 0)), <<>>)
                       ELSE LET verified ==
                                    verify_data_availability(
                                        blobs_sidecar, Unwrap(kzg_commitments.val),
                                        Unwrap(Unwrap(transactions.val)), block.slot,
                                        block_root, kzg_opt)
                                call == [blob_sidecar |-> blobs_sidecar,
                                         kzg_commitments |-> Unwrap(kzg_commitments.val),
                                         block_slot |-> block.slot,
                                         block_root |-> block_root,
                                         result |-> verified]
                            IN IF IsErr(verified)
                               THEN Outcome(verified, <<call>>)
                               ELSE Outcome(new_with_blobs(block, blobs_sidecar, da_check_required),
                                            <<call>>)
               ELSE Outcome(new_with_blobs(block, blobs_sidecar, da_check_required), <<>>)

\* mutant: the slots are compared before the clock is consulted
validate_blob_for_gossip_mismatch_first(wrapper, block_root, clock, boundary_opt, kzg_opt, outcome) ==
    LET certify == into_available_block(wrapper, block_root, boundary_opt, kzg_opt, outcome)
    IN IF wrapper.tag = "BlockAndBlob"
       THEN LET blob_slot == Unwrap(wrapper.blobs_sidecar).beacon_block_slot
            IN IF blob_slot # wrapper.block.slot
               THEN Outcome(Err(BlobError("SlotMismatch", "",
                                          blob_slot, wrapper.block.slot)), <<>>)
               ELSE IF ~IsSome(clock)
               THEN Outcome(Err(BlobError("BeaconChainError", "UnableToReadSlot", 0, 0)), <<>>)
               ELSE IF blob_slot > Unwrap(clock)
               THEN Outcome(Err(BlobError("FutureSlot", "", Unwrap(clock), blob_slot)), <<>>)
               ELSE certify
       ELSE certify

\* validate_blob_for_gossip
validate_blob_for_gossip(wrapper, block_root, clock, boundary_opt, kzg_opt, outcome) ==
    LET certify == into_available_block(wrapper, block_root, boundary_opt, kzg_opt, outcome)
    IN IF wrapper.tag = "BlockAndBlob"
       THEN LET blob_slot == Unwrap(wrapper.blobs_sidecar).beacon_block_slot
            IN IF ~IsSome(clock)
               THEN Outcome(Err(BlobError("BeaconChainError", "UnableToReadSlot", 0, 0)), <<>>)
               ELSE LET latest_permissible_slot == Unwrap(clock)
                    IN IF blob_slot > latest_permissible_slot
                       THEN Outcome(Err(BlobError("FutureSlot", "",
                                                  latest_permissible_slot, blob_slot)), <<>>)
                       ELSE IF blob_slot # wrapper.block.slot
                       THEN Outcome(Err(BlobError("SlotMismatch", "",
                                                  blob_slot, wrapper.block.slot)), <<>>)
                       ELSE certify
       ELSE certify

\* ---------------------------------------------------------------- sidecar gossip
BlobIndices == {0, 1}

\* SignedBlobSidecar: the message fields the validator reads, who signed it
\* (signer) and whether its KZG proof opens its commitment.
SignedBlobSidecars ==
    [slot : Slots, index : BlobIndices, block_root : Roots,
     proposer_index : Validators, signer : Validators, kzg_proof_valid : BOOLEAN]

\* SignedBlobSidecar::verify_signature against the public key of `pubkey`
verify_signature(blob_sidecar, pubkey) == blob_sidecar.signer = pubkey

\* ValidatorPubkeyCache::get
pubkey_cache_get(cache, validator_index) ==
    IF validator_index < cache THEN Some(validator_index) ELSE None

\* fork_choice.get_block(root).or_else(|| early_attester_cache.get_proto_block(root))
get_block(fc, eac, block_root) ==
    IF block_root \in fc THEN Some(block_root)
    ELSE IF eac = Some(block_root) THEN Some(block_root)
    ELSE None

\* mutant: the block is looked up before the proposer is checked
validate_blob_sidecar_for_gossip_block_first(blob_sidecar, subnet, clock, fin_epoch, cache_entry, state_proposer, pubkey_lock, pubkey_cache, fc, eac) ==
    LET blob_slot == blob_sidecar.slot
        proposer_index ==
            IF IsSome(cache_entry) THEN Unwrap(cache_entry) ELSE Unwrap(state_proposer)
    IN
    IF blob_sidecar.index # subnet
    THEN Err(BlobError("InvalidSubnet", "", blob_sidecar.index, subnet))
    ELSE IF ~IsSome(clock)
    THEN Err(BlobError("BeaconChainError", "UnableToReadSlot", 0, 0))
    ELSE IF blob_slot > Unwrap(clock)
    THEN Err(BlobError("FutureSlot", "", blob_slot, Unwrap(clock)))
    ELSE IF blob_slot <= start_slot(fin_epoch)
    THEN Err(BlobError("PastFinalizedSlot", "", blob_slot, start_slot(fin_epoch)))
    ELSE IF ~IsSome(get_block(fc, eac, blob_sidecar.block_root))
    THEN Err(BlobError("UnknownHeadBlock", "", blob_sidecar.block_root, 0))
    ELSE IF ~IsSome(cache_entry) /\ ~IsSome(state_proposer)
    THEN Err(BlobError("BeaconChainError", "BeaconStateError", 0, 0))
    ELSE IF proposer_index # blob_sidecar.proposer_index
    THEN Err(BlobError("ProposerIndexMismatch", "", blob_sidecar.proposer_index, proposer_index))
    ELSE IF ~pubkey_lock
    THEN Err(BlobError("BeaconChainError", "ValidatorPubkeyCacheLockTimeout", 0, 0))
    ELSE IF ~IsSome(pubkey_cache_get(pubkey_cache, proposer_index))
    THEN Err(BlobError("UnknownValidator", "", proposer_index, 0))
    ELSE IF ~verify_signature(blob_sidecar,
                              Unwrap(pubkey_cache_get(pubkey_cache, proposer_index)))
    THEN Err(BlobError("ProposerSignatureInvalid", "", 0, 0))
    ELSE Ok(Unit)

\* mutant: the KZG proof is checked once the signature is verified
validate_blob_sidecar_for_gossip_with_kzg(blob_sidecar, subnet, clock, fin_epoch, cache_entry, state_proposer, pubkey_lock, pubkey_cache, fc, eac) ==
    LET blob_slot == blob_sidecar.slot
        proposer_index ==
            IF IsSome(cache_entry) THEN Unwrap(cache_entry) ELSE Unwrap(state_proposer)
    IN
    IF blob_sidecar.index # subnet
    THEN Err(BlobError("InvalidSubnet", "", blob_sidecar.index, subnet))
    ELSE IF ~IsSome(clock)
    THEN Err(BlobError("BeaconChainError", "UnableToReadSlot", 0, 0))
    ELSE IF blob_slot > Unwrap(clock)
    THEN Err(BlobError("FutureSlot", "", blob_slot, Unwrap(clock)))
    ELSE IF blob_slot <= start_slot(fin_epoch)
    THEN Err(BlobError("PastFinalizedSlot", "", blob_slot, start_slot(fin_epoch)))
    ELSE IF ~IsSome(cache_entry) /\ ~IsSome(state_proposer)
    THEN Err(BlobError("BeaconChainError", "BeaconStateError", 0, 0))
    ELSE IF proposer_index # blob_sidecar.proposer_index
    THEN Err(BlobError("ProposerIndexMismatch", "", blob_sidecar.proposer_index, proposer_index))
    ELSE IF ~pubkey_lock
    THEN Err(BlobError("BeaconChainError", "ValidatorPubkeyCacheLockTimeout", 0, 0))
    ELSE IF ~IsSome(pubkey_cache_get(pubkey_cache, proposer_index))
    THEN Err(BlobError("UnknownValidator", "", proposer_index, 0))
    ELSE IF ~verify_signature(blob_sidecar,
                              Unwrap(pubkey_cache_get(pubkey_cache, proposer_index)))
    THEN Err(BlobError("ProposerSignatureInvalid", "", 0, 0))
    ELSE IF ~blob_sidecar.kzg_proof_valid
    THEN Err(BlobError("InvalidKzgProof", "", 0, 0))
    ELSE IF ~IsSome(get_block(fc, eac, blob_sidecar.block_root))
    THEN Err(BlobError("UnknownHeadBlock", "", blob_sidecar.block_root, 0))
    ELSE Ok(Unit)

\* mutant: a sidecar is dropped as a repeat when the early attester cache holds
\* another block than its own
validate_blob_sidecar_for_gossip_rejects_repeat(blob_sidecar, subnet, clock, fin_epoch, cache_entry, state_proposer, pubkey_lock, pubkey_cache, fc, eac) ==
    LET blob_slot == blob_sidecar.slot
        blob_index == blob_sidecar.index
        block_root == blob_sidecar.block_root
        proposer_index == IF IsSome(cache_entry) THEN Unwrap(cache_entry) ELSE Unwrap(state_proposer)
    IN
    IF blob_index # subnet
    THEN Err(BlobError("InvalidSubnet", "", blob_index, subnet))
    ELSE IF ~IsSome(clock)
    THEN Err(BlobError("BeaconChainError", "UnableToReadSlot", 0, 0))
    ELSE IF blob_slot > Unwrap(clock)
    THEN Err(BlobError("FutureSlot", "", blob_slot, Unwrap(clock)))
    ELSE IF blob_slot <= start_slot(fin_epoch)
    THEN Err(BlobError("PastFinalizedSlot", "", blob_slot, start_slot(fin_epoch)))
    ELSE IF ~IsSome(cache_entry) /\ ~IsSome(state_proposer)
    THEN Err(BlobError("BeaconChainError", "BeaconStateError", 0, 0))
    ELSE IF proposer_index # blob_sidecar.proposer_index
    THEN Err(BlobError("ProposerIndexMismatch", "", blob_sidecar.proposer_index, proposer_index))
    ELSE IF ~pubkey_lock
    THEN Err(BlobError("BeaconChainError", "ValidatorPubkeyCacheLockTimeout", 0, 0))
    ELSE IF ~IsSome(pubkey_cache_get(pubkey_cache, proposer_index))
    THEN Err(BlobError("UnknownValidator", "", proposer_index, 0))
    ELSE IF ~verify_signature(blob_sidecar, Unwrap(pubkey_cache_get(pubkey_cache, proposer_index)))
    THEN Err(BlobError("ProposerSignatureInvalid", "", 0, 0))
    ELSE IF IsSome(eac) /\ eac # Some(block_root)
    THEN Err(BlobError("RepeatSidecar", "", proposer_index, blob_index))
    ELSE IF ~IsSome(get_block(fc, eac, block_root))
    THEN Err(BlobError("UnknownHeadBlock", "", block_root, 0))
    ELSE Ok(Unit)

\* mutant: a sidecar of the latest permissible slot is already of the future
validate_blob_sidecar_for_gossip_strict_future(blob_sidecar, subnet, clock, fin_epoch, cache_entry, state_proposer, pubkey_lock, pubkey_cache, fc, eac) ==
    LET blob_slot == blob_sidecar.slot
        blob_index == blob_sidecar.index
        proposer_index == IF IsSome(cache_entry) THEN Unwrap(cache_entry) ELSE Unwrap(state_proposer)
    IN
    IF blob_index # subnet
    THEN Err(BlobError("InvalidSubnet", "", blob_index, subnet))
    ELSE IF ~IsSome(clock)
    THEN Err(BlobError("BeaconChainError", "UnableToReadSlot", 0, 0))
    ELSE IF blob_slot >= Unwrap(clock)
    THEN Err(BlobError("FutureSlot", "", blob_slot, Unwrap(clock)))
    ELSE IF blob_slot <= start_slot(fin_epoch)
    THEN Err(BlobError("PastFinalizedSlot", "", blob_slot, start_slot(fin_epoch)))
    ELSE IF ~IsSome(cache_entry) /\ ~IsSome(state_proposer)
    THEN Err(BlobError("BeaconChainError", "BeaconStateError", 0, 0))
    ELSE IF proposer_index # blob_sidecar.proposer_index
    THEN Err(BlobError("ProposerIndexMismatch", "", blob_sidecar.proposer_index, proposer_index))
    ELSE IF ~pubkey_lock
    THEN Err(BlobError("BeaconChainError", "ValidatorPubkeyCacheLockTimeout", 0, 0))
    ELSE IF ~IsSome(pubkey_cache_get(pubkey_cache, proposer_index))
    THEN Err(BlobError("UnknownValidator", "", proposer_index, 0))
    ELSE IF ~verify_signature(blob_sidecar, Unwrap(pubkey_cache_get(pubkey_cache, proposer_index)))
    THEN Err(BlobError("ProposerSignatureInvalid", "", 0, 0))
    ELSE IF ~IsSome(get_block(fc, eac, blob_sidecar.block_root))
    THEN Err(BlobError("UnknownHeadBlock", "", blob_sidecar.block_root, 0))
    ELSE Ok(Unit)

\* validate_blob_sidecar_for_gossip.  cache_entry is what the proposer cache
\* holds for (block_parent_root, slot), state_proposer what the head state
\* computes (None: BeaconStateError), pubkey_lock whether try_read_for got the
\* lock in time.
validate_blob_sidecar_for_gossip(blob_sidecar, subnet, clock, fin_epoch, cache_entry, state_proposer, pubkey_lock, pubkey_cache, fc, eac) ==
    LET blob_slot == blob_sidecar.slot
        blob_index == blob_sidecar.index
        block_root == blob_sidecar.block_root
    IN
    IF blob_index # subnet
    THEN Err(BlobError("InvalidSubnet", "", blob_index, subnet))
    ELSE IF ~IsSome(clock)
    THEN Err(BlobError("BeaconChainError", "UnableToReadSlot", 0, 0))
    ELSE IF blob_slot > Unwrap(clock)
    THEN Err(BlobError("FutureSlot", "", blob_slot, Unwrap(clock)))
    ELSE IF blob_slot <= start_slot(fin_epoch)
    THEN Err(BlobError("PastFinalizedSlot", "", blob_slot, start_slot(fin_epoch)))
    ELSE IF ~IsSome(cache_entry) /\ ~IsSome(state_proposer)
    THEN Err(BlobError("BeaconChainError", "BeaconStateError", 0, 0))
    ELSE LET proposer_index ==
                 IF IsSome(cache_entry) THEN Unwrap(cache_entry) ELSE Unwrap(state_proposer)
             blob_proposer_index == blob_sidecar.proposer_index
         IN
         IF proposer_index # blob_proposer_index
         THEN Err(BlobError("ProposerIndexMismatch", "", blob_proposer_index, proposer_index))
         ELSE IF ~pubkey_lock
         THEN Err(BlobError("BeaconChainError", "ValidatorPubkeyCacheLockTimeout", 0, 0))
         ELSE IF ~IsSome(pubkey_cache_get(pubkey_cache, proposer_index))
         THEN Err(BlobError("UnknownValidator", "", proposer_index, 0))
         ELSE IF ~verify_signature(blob_sidecar,
                                   Unwrap(pubkey_cache_get(pubkey_cache, proposer_index)))
         THEN Err(BlobError("ProposerSignatureInvalid", "", 0, 0))
         ELSE IF ~IsSome(get_block(fc, eac, block_root))
         THEN Err(BlobError("UnknownHeadBlock", "", block_root, 0))
         ELSE Ok(Unit)

\* ---------------------------------------------------------------- the calls
OptionOf(S) == {None} \cup {Some(x) : x \in S}

\* AvailableBlock::new(block, block_root, da_check_required)
AvailableBlockNew ==
    /\ op = "none"
    /\ \E b \in Blocks, r \in Roots, da \in {"Yes", "No"}, o \in ReconstructionOutcomes :
          /\ op' = "AvailableBlock::new"
          /\ arg' = [block |-> b, block_root |-> r, da_check_required |-> da, outcome |-> o]
          /\ ret' = AvailableBlock_new(b, r, da, o)
          /\ vlog' = <<>>
    /\ UNCHANGED <<chainVars, restVars>>

\* block_wrapper.into_available_block(block_root, chain)
IntoAvailableBlock ==
    /\ op = "none"
    /\ \E w \in BlockWrappers, r \in Roots :
       \E o \in (IF w.tag = "Block" THEN ReconstructionOutcomes ELSE {"Ok"}) :
          LET out == into_available_block(w, r, data_availability_boundary, kzg, o)
          IN /\ op' = "into_available_block"
             /\ arg' = [wrapper |-> w, block_root |-> r, outcome |-> o]
             /\ ret' = out.ret
             /\ vlog' = out.vlog
    /\ UNCHANGED <<chainVars, restVars>>

\* validate_blob_for_gossip(block_wrapper, block_root, chain)
ValidateBlobForGossip ==
    /\ op = "none"
    /\ \E w \in BlockWrappers, r \in Roots :
       \E o \in (IF w.tag = "Block" THEN ReconstructionOutcomes ELSE {"Ok"}) :
          LET out == validate_blob_for_gossip(w, r, slot_clock,
                                              data_availability_boundary, kzg, o)
          IN /\ op' = "validate_blob_for_gossip"
             /\ arg' = [wrapper |-> w, block_root |-> r, outcome |-> o]
             /\ ret' = out.ret
             /\ vlog' = out.vlog
    /\ UNCHANGED <<chainVars, restVars>>

\* validate_blob_sidecar_for_gossip(blob_sidecar, subnet, chain)
ValidateBlobSidecarForGossip ==
    /\ op = "none"
    /\ \E s \in SignedBlobSidecars, subnet \in BlobIndices, lock \in BOOLEAN,
          ce \in OptionOf(Validators) :
       \E sp \in (IF IsSome(ce) THEN {None} ELSE OptionOf(Validators)) :
          /\ op' = "validate_blob_sidecar_for_gossip"
          /\ arg' = [blob_sidecar |-> s, subnet |-> subnet, cache_entry |-> ce,
                     state_proposer |-> sp, pubkey_lock |-> lock]
          /\ ret' = validate_blob_sidecar_for_gossip(
                        s, subnet, slot_clock, finalized_epoch, ce, sp, lock,
                        validator_pubkey_cache, fork_choice, early_attester_cache)
          /\ vlog' = <<>>
    /\ UNCHANGED <<chainVars, restVars>>

\* ---------------------------------------------------------------- specifications
InitCall ==
    /\ op = "none"
    /\ arg = NoArg
    /\ ret = NoRet
    /\ vlog = <<>>

\* No lock is held and no stepwise validation is under way.
InitLocksIdle ==
    /\ beacon_proposer_cache_lock = "free"
    /\ validator_pubkey_cache_lock = "free"
    /\ gossip_pc = "idle"

\* The sidecar cache is not in use.
InitCacheIdle ==
    /\ blobs_cache = <<>>
    /\ cache_pre = <<>>
    /\ prev_call = <<>>
    /\ last_put = <<>>
    /\ cache_ops = 0

\* No task is using the cache.
InitTasksIdle ==
    /\ blobs_mutex = 0
    /\ tasks = <<>>

\* No fetch is under way.
InitFetchIdle ==
    /\ fetch_pc = "idle"
    /\ fixed_blob_sidecar_list = <<>>
    /\ fetch_log = <<>>
    /\ build_pc = "none"
    /\ build_blobs = <<>>
    /\ data_columns_channel = <<>>

\* No light client is running.
InitLightClientIdle ==
    /\ store = <<>>
    /\ store_pre = <<>>
    /\ applied = [count |-> 0, update |-> <<>>]
    /\ sync_pc = "uninit"
    /\ sync_frame = <<>>
    /\ join_pending = {}

InitRestIdle == InitLocksIdle /\ InitCacheIdle /\ InitTasksIdle /\ InitFetchIdle /\ InitLightClientIdle

\* Certification: the clock, the DA boundary and the trusted setup vary.
Init ==
    /\ slot_clock \in OptionOf(1..MaxSlot)
    /\ data_availability_boundary \in OptionOf({0, 1})
    /\ kzg \in OptionOf({"trusted_setup"})
    /\ finalized_epoch = 0
    /\ fork_choice = {}
    /\ early_attester_cache = None
    /\ validator_pubkey_cache = NumValidators
    /\ InitCall
    /\ InitRestIdle

Next ==
    \/ AvailableBlockNew
    \/ IntoAvailableBlock
    \/ ValidateBlobForGossip

Spec == Init /\ [][Next]_vars

\* Sidecar gossip: the clock, finality, the known blocks and the public keys vary.
InitGossip ==
    /\ slot_clock \in OptionOf(1..MaxSlot)
    /\ finalized_epoch \in {0, 1}
    /\ fork_choice \in SUBSET Roots
    /\ early_attester_cache \in OptionOf(Roots)
    /\ validator_pubkey_cache \in 0..NumValidators
    /\ data_availability_boundary = None
    /\ kzg = None
    /\ InitCall
    /\ InitRestIdle

NextGossip == ValidateBlobSidecarForGossip

SpecGossip == InitGossip /\ [][NextGossip]_vars

\* ---------------------------------------------------------------- gossip validation, lock by lock
\* The checks of validate_blob_sidecar_for_gossip that precede the proposer
\* cache lookup all pass: subnet, clock, future slot, finalized slot.
reaches_proposer_cache(blob_sidecar, subnet, clock, fin_epoch) ==
    /\ blob_sidecar.index = subnet
    /\ IsSome(clock)
    /\ blob_sidecar.slot <= Unwrap(clock)
    /\ blob_sidecar.slot > start_slot(fin_epoch)

\* The proposer lookup answers and agrees with the sidecar, so the call goes on
\* to the public-key cache.
reaches_pubkey_cache(blob_sidecar, cache_entry, state_proposer) ==
    /\ IsSome(cache_entry) \/ IsSome(state_proposer)
    /\ blob_sidecar.proposer_index =
           (IF IsSome(cache_entry) THEN Unwrap(cache_entry) ELSE Unwrap(state_proposer))

\* What the call returns, given whether try_read_for obtained the lock.
GossipReturn(a, pubkey_lock) ==
    validate_blob_sidecar_for_gossip(a.blob_sidecar, a.subnet, slot_clock, finalized_epoch, a.cache_entry, a.state_proposer, pubkey_lock, validator_pubkey_cache, fork_choice, early_attester_cache)

\* The call starts and runs the checks that need no lock.
GossipEnter ==
    /\ gossip_pc = "idle"
    /\ \E s \in SignedBlobSidecars, subnet \in BlobIndices, ce \in OptionOf(Validators) :
       \E sp \in (IF IsSome(ce) THEN {None} ELSE OptionOf(Validators)) :
          LET a == [blob_sidecar |-> s, subnet |-> subnet, cache_entry |-> ce,
                    state_proposer |-> sp, pubkey_lock |-> TRUE]
          IN /\ op' = "validate_blob_sidecar_for_gossip"
             /\ arg' = a
             /\ IF reaches_proposer_cache(s, subnet, slot_clock, finalized_epoch)
                THEN gossip_pc' = "beacon_proposer_cache" /\ ret' = ret
                ELSE gossip_pc' = "returned" /\ ret' = GossipReturn(a, TRUE)
    /\ UNCHANGED <<chainVars, lockRest, vlog, beacon_proposer_cache_lock, validator_pubkey_cache_lock>>

\* chain.beacon_proposer_cache.lock(): a plain mutex acquisition, possible only
\* once the mutex is free; the guard is dropped at the end of the match.
GossipLockProposerCache ==
    /\ gossip_pc = "beacon_proposer_cache"
    /\ beacon_proposer_cache_lock = "free"
    /\ IF reaches_pubkey_cache(arg.blob_sidecar, arg.cache_entry, arg.state_proposer)
       THEN gossip_pc' = "validator_pubkey_cache" /\ ret' = ret
       ELSE gossip_pc' = "returned" /\ ret' = GossipReturn(arg, TRUE)
    /\ UNCHANGED <<chainVars, lockRest, op, arg, vlog, beacon_proposer_cache_lock, validator_pubkey_cache_lock>>

\* chain.validator_pubkey_cache.try_read_for(VALIDATOR_PUBKEY_CACHE_LOCK_TIMEOUT):
\* the read lock if the cache is free, None once the timeout has run out on a
\* cache that is held; the rest of the call follows.
GossipTryReadPubkeyCache ==
    /\ gossip_pc = "validator_pubkey_cache"
    /\ LET got == validator_pubkey_cache_lock = "free"
       IN /\ arg' = [arg EXCEPT !.pubkey_lock = got]
          /\ ret' = GossipReturn(arg, got)
    /\ gossip_pc' = "returned"
    /\ UNCHANGED <<chainVars, lockRest, op, vlog, beacon_proposer_cache_lock, validator_pubkey_cache_lock>>

\* Another task takes, or gives back, one of the two locks.  Nothing obliges
\* it ever to give a lock back.
OtherTaskProposerCache ==
    /\ beacon_proposer_cache_lock' = (IF beacon_proposer_cache_lock = "free" THEN "other" ELSE "free")
    /\ UNCHANGED <<chainVars, callVars, lockRest, validator_pubkey_cache_lock, gossip_pc>>

OtherTaskPubkeyCache ==
    /\ validator_pubkey_cache_lock' = (IF validator_pubkey_cache_lock = "free" THEN "other" ELSE "free")
    /\ UNCHANGED <<chainVars, callVars, lockRest, beacon_proposer_cache_lock, gossip_pc>>

\* The steps of the validating call itself.
GossipStep == GossipLockProposerCache \/ GossipTryReadPubkeyCache

InitGossipLocks ==
    /\ slot_clock \in OptionOf(1..MaxSlot)
    /\ finalized_epoch = 0
    /\ fork_choice \in {{}, Roots}
    /\ early_attester_cache = None
    /\ validator_pubkey_cache \in 0..NumValidators
    /\ data_availability_boundary = None
    /\ kzg = None
    /\ InitCall
    /\ InitRestIdle

NextGossipLocks ==
    \/ GossipEnter
    \/ GossipLockProposerCache
    \/ GossipTryReadPubkeyCache
    \/ OtherTaskProposerCache
    \/ OtherTaskPubkeyCache

SpecGossipLocks == InitGossipLocks /\ [][NextGossipLocks]_vars

\* ---------------------------------------------------------------- sidecar cache
\* T::max_blobs_per_block()
MaxBlobsPerBlock == 3
\* cache calls in one run
MaxCacheOps == 3

DEFAULT_BLOB_CACHE_SIZE == 10

BlobCacheId(block_root, blob_index) == <<block_root, blob_index>>

\* The entries of an LruCache, least recently used first.
KeyIndex(entries, k) ==
    IF \E i \in 1..Len(entries) : entries[i].key = k
    THEN CHOOSE i \in 1..Len(entries) : entries[i].key = k
    ELSE 0
RemoveAt(entries, i) == SubSeq(entries, 1, i - 1) \o SubSeq(entries, i + 1, Len(entries))
CacheKeys(c) == {c.entries[i].key : i \in 1..Len(c.entries)}
CacheLookup(c, k) ==
    IF KeyIndex(c.entries, k) = 0 THEN None ELSE Some(c.entries[KeyIndex(c.entries, k)].blob)

CacheResult(c, r) == [cache |-> c, ret |-> r]

LruCache_new(cap) == [cap |-> cap, entries |-> <<>>]

\* LruCache::put: an existing key gets the new value, becomes the most
\* recently used and the old value is returned; a new key is appended, at
\* capacity in place of the least recently used entry, and None is returned.
LruCache_put(c, k, v) ==
    LET i == KeyIndex(c.entries, k)
        e == [key |-> k, blob |-> v]
    IN IF i # 0
       THEN CacheResult([c EXCEPT !.entries = RemoveAt(c.entries, i) \o <<e>>],
                        Some(c.entries[i].blob))
       ELSE IF Len(c.entries) >= c.cap
       THEN CacheResult([c EXCEPT !.entries = Tail(c.entries) \o <<e>>], None)
       ELSE CacheResult([c EXCEPT !.entries = c.entries \o <<e>>], None)

\* LruCache::pop: removes the entry and returns its value.
LruCache_pop(c, k) ==
    LET i == KeyIndex(c.entries, k)
    IN IF i # 0
       THEN CacheResult([c EXCEPT !.entries = RemoveAt(c.entries, i)], Some(c.entries[i].blob))
       ELSE CacheResult(c, None)

\* LruCache::peek: the value, the order of use left as it is.
LruCache_peek(c, k) == CacheResult(c, CacheLookup(c, k))

\* LruCache::get: the value, the entry becoming the most recently used.
LruCache_get(c, k) ==
    LET i == KeyIndex(c.entries, k)
    IN IF i # 0
       THEN CacheResult([c EXCEPT !.entries = RemoveAt(c.entries, i) \o <<c.entries[i]>>],
                        Some(c.entries[i].blob))
       ELSE CacheResult(c, None)

\* BlobSidecarsCache::default()
BlobSidecarsCache_default == LruCache_new(DEFAULT_BLOB_CACHE_SIZE * MaxBlobsPerBlock)

\* mutant: a new key is appended even at capacity
put_no_evict(cache, block_root, blob, blob_index) ==
    LET k == BlobCacheId(block_root, blob_index)
    IN IF KeyIndex(cache.entries, k) # 0
       THEN LruCache_put(cache, k, blob)
       ELSE CacheResult([cache EXCEPT !.entries = cache.entries \o <<[key |-> k, blob |-> blob]>>], None)

\* mutant: an overwritten key keeps its place in the order of use
put_keeps_place(cache, block_root, blob, blob_index) ==
    LET k == BlobCacheId(block_root, blob_index)
        i == KeyIndex(cache.entries, k)
    IN IF i # 0
       THEN CacheResult([cache EXCEPT !.entries[i].blob = blob], Some(cache.entries[i].blob))
       ELSE LruCache_put(cache, k, blob)

\* mutant: the value evicted for a new key is returned
put_returns_evicted(cache, block_root, blob, blob_index) ==
    LET k == BlobCacheId(block_root, blob_index)
        out == LruCache_put(cache, k, blob)
    IN IF KeyIndex(cache.entries, k) = 0 /\ Len(cache.entries) >= cache.cap
       THEN CacheResult(out.cache, Some(cache.entries[1].blob))
       ELSE out

\* BlobSidecarsCache::put(block_root, blob, blob_index)
put(cache, block_root, blob, blob_index) ==
    LruCache_put(cache, BlobCacheId(block_root, blob_index), blob)

\* mutant: the entry is returned and left in the cache
pop_keeps_entry(cache, block_root, blob_index) ==
    LruCache_peek(cache, BlobCacheId(block_root, blob_index))

\* BlobSidecarsCache::pop(block_root, blob_index)
pop(cache, block_root, blob_index) ==
    LruCache_pop(cache, BlobCacheId(block_root, blob_index))

\* mutant: the read refreshes the entry
peek_promotes(cache, block_root, blob_index) ==
    LruCache_get(cache, BlobCacheId(block_root, blob_index))

\* BlobSidecarsCache::peek(block_root, blob_index)
peek(cache, block_root, blob_index) ==
    LruCache_peek(cache, BlobCacheId(block_root, blob_index))

\* The j-th key in the order in which a run fills the cache.
FillKey(j) == BlobCacheId((j - 1) \div MaxBlobsPerBlock + 1, (j - 1) % MaxBlobsPerBlock)

Capacity == DEFAULT_BLOB_CACHE_SIZE * MaxBlobsPerBlock

\* The default cache after FillKey(1) .. FillKey(n) were put, in that order,
\* n within the capacity: every put found a new key and room for it.
Filled(n) ==
    [BlobSidecarsCache_default EXCEPT
        !.entries = [j \in 1..n |-> [key |-> FillKey(j), blob |-> "a"]]]

FillSizes == {0, 1, Capacity - 1, Capacity}
AllKeys == {FillKey(j) : j \in 1..(Capacity + 1)}
\* the keys of the calls: the oldest two, the last one that fits, one more
OpKeys == {FillKey(1), FillKey(2), FillKey(Capacity), FillKey(Capacity + 1)}
CacheSidecars == {"a", "b"}

Latest == CHOOSE m \in 0..(Capacity + MaxCacheOps) : \A k \in AllKeys : last_put[k] <= m

CacheCall(name, k, blob, out) ==
    /\ blobs_cache' = out.cache
    /\ cache_pre' = blobs_cache
    /\ prev_call' = [op |-> op, arg |-> arg, ret |-> ret]
    /\ op' = name
    /\ arg' = [block_root |-> k[1], blob_index |-> k[2], blob |-> blob]
    /\ ret' = out.ret
    /\ cache_ops' = cache_ops + 1
    /\ UNCHANGED <<chainVars, cacheRest, vlog>>

CachePut ==
    /\ cache_ops < MaxCacheOps
    /\ \E k \in OpKeys, blob \in CacheSidecars :
          /\ CacheCall("put", k, blob, put(blobs_cache, k[1], blob, k[2]))
          /\ last_put' = [last_put EXCEPT ![k] = Latest + 1]

CachePop ==
    /\ cache_ops < MaxCacheOps
    /\ \E k \in OpKeys :
          /\ CacheCall("pop", k, "", pop(blobs_cache, k[1], k[2]))
          /\ last_put' = last_put

CachePeek ==
    /\ cache_ops < MaxCacheOps
    /\ \E k \in OpKeys :
          /\ CacheCall("peek", k, "", peek(blobs_cache, k[1], k[2]))
          /\ last_put' = last_put

InitCache ==
    /\ \E n \in FillSizes :
          /\ blobs_cache = Filled(n)
          /\ last_put = [k \in AllKeys |-> IF \E j \in 1..n : k = FillKey(j)
                                           THEN CHOOSE j \in 1..n : k = FillKey(j) ELSE 0]
    /\ cache_pre = blobs_cache
    /\ prev_call = [op |-> "none", arg |-> NoArg, ret |-> NoRet]
    /\ cache_ops = 0
    /\ slot_clock = None
    /\ finalized_epoch = 0
    /\ fork_choice = {}
    /\ early_attester_cache = None
    /\ validator_pubkey_cache = 0
    /\ data_availability_boundary = None
    /\ kzg = None
    /\ InitCall
    /\ InitLocksIdle
    /\ InitTasksIdle
    /\ InitFetchIdle
    /\ InitLightClientIdle

NextCache == CachePut \/ CachePop \/ CachePeek

SpecCache == InitCache /\ [][NextCache]_vars

\* ---------------------------------------------------------------- tasks sharing the cache
NumTasks == 2
Tasks == 1..NumTasks

\* the keys the tasks contend for: the oldest one and one that is not cached
TaskKeys == {FillKey(1), FillKey(Capacity + 1)}

IdleTask == [pc |-> "idle", op |-> "none", key |-> <<>>, blob |-> "", out |-> <<>>, ret |-> <<>>]

\* What a cache method, run on the cache c, makes of it.
Apply(c, call) ==
    CASE call.op = "put" -> put(c, call.key[1], call.blob, call.key[2])
      [] call.op = "pop" -> pop(c, call.key[1], call.key[2])
      [] call.op = "peek" -> peek(c, call.key[1], call.key[2])

\* mutant: the cache is entered whether or not another task holds the mutex
Mutex_lock_unguarded(mutex) == TRUE

\* self.blobs.lock(): possible once no task holds the mutex
Mutex_lock(mutex) == mutex = 0

\* A task calls put, pop or peek.
TaskCall(t) ==
    /\ tasks[t].pc = "idle"
    /\ \E name \in {"put", "pop", "peek"}, k \in TaskKeys :
       \E blob \in (IF name = "put" THEN CacheSidecars ELSE {""}) :
          tasks' = [tasks EXCEPT ![t] = [IdleTask EXCEPT !.pc = "lock", !.op = name,
                                                         !.key = k, !.blob = blob]]
    /\ UNCHANGED <<chainVars, callVars, taskRest, blobs_cache, cache_pre, blobs_mutex>>

\* self.blobs.lock()
TaskLock(t) ==
    /\ tasks[t].pc = "lock"
    /\ Mutex_lock(blobs_mutex)
    /\ blobs_mutex' = t
    /\ tasks' = [tasks EXCEPT ![t].pc = "read"]
    /\ UNCHANGED <<chainVars, callVars, taskRest, blobs_cache, cache_pre>>

\* The LruCache method reads the list of entries ...
TaskRead(t) ==
    /\ tasks[t].pc = "read"
    /\ tasks' = [tasks EXCEPT ![t].pc = "write", ![t].out = <<Apply(blobs_cache, tasks[t])>>]
    /\ UNCHANGED <<chainVars, callVars, taskRest, blobs_cache, cache_pre, blobs_mutex>>

\* ... and writes it back; the guard is dropped and the method returns.
TaskWrite(t) ==
    /\ tasks[t].pc = "write"
    /\ blobs_cache' = tasks[t].out[1].cache
    /\ blobs_mutex' = 0
    /\ tasks' = [tasks EXCEPT ![t].pc = "done", ![t].ret = <<tasks[t].out[1].ret>>]
    /\ UNCHANGED <<chainVars, callVars, taskRest, cache_pre>>

InitCacheTasks ==
    /\ blobs_cache \in {Filled(1), Filled(Capacity)}
    /\ cache_pre = blobs_cache
    /\ prev_call = <<>>
    /\ last_put = <<>>
    /\ cache_ops = 0
    /\ blobs_mutex = 0
    /\ tasks = [t \in Tasks |-> IdleTask]
    /\ slot_clock = None
    /\ finalized_epoch = 0
    /\ fork_choice = {}
    /\ early_attester_cache = None
    /\ validator_pubkey_cache = 0
    /\ data_availability_boundary = None
    /\ kzg = None
    /\ InitCall
    /\ InitLocksIdle
    /\ InitFetchIdle
    /\ InitLightClientIdle

NextCacheTasks ==
    \E t \in Tasks :
        \/ TaskCall(t)
        \/ TaskLock(t)
        \/ TaskRead(t)
        \/ TaskWrite(t)

SpecCacheTasks == InitCacheTasks /\ [][NextCacheTasks]_vars

\* ---------------------------------------------------------------- fetch_blobs_and_publish
\* The block's declared commitments: None for a block without the field.
FetchCommitments == OptionOf({[i \in 1..n |-> blob_to_kzg_commitment(i)] : n \in 0..MaxBlobsPerBlock})

\* What the engine may answer to a request for n blobs: per position no blob
\* ("none"), a blob whose sidecar can be built ("ok") or one whose sidecar
\* cannot ("bad"); one position more than asked for at most.
EngineResponses(n) == UNION {[1..len -> {"none", "ok", "bad"}] : len \in {n, n + 1}}

Event(ev, kind, items, receiver) == [ev |-> ev, kind |-> kind, items |-> items, receiver |-> receiver]

\* block.message().body().blob_kzg_commitments() mapped to versioned hashes
versioned_hashes_of(commitments) ==
    IF IsSome(commitments)
    THEN [i \in 1..Len(Unwrap(commitments)) |-> kzg_commitment_to_versioned_hash(Unwrap(commitments)[i])]
    ELSE <<>>

\* response.iter().filter(|b| b.is_some()).count()
num_fetched_blobs_of(response) == Cardinality({i \in 1..Len(response) : response[i] # "none"})

\* BlobSidecar::new_efficiently(i, ..): the sidecar of the blob at index i
BlobSidecar_new_efficiently(i, item) == IF item = "ok" THEN Ok([index |-> i]) ELSE Err("sidecar")

\* mutant: the sidecars built are stored from the first slot on
fill_fixed_blob_sidecar_list_packed(response) ==
    LET Built(i) == i <= Len(response) /\ response[i] # "none" /\ IsOk(BlobSidecar_new_efficiently(i - 1, response[i]))
        built == SelectSeq([i \in 1..MaxBlobsPerBlock |-> i], Built)
    IN [j \in 1..MaxBlobsPerBlock |-> IF j <= Len(built) THEN Some([index |-> built[j] - 1]) ELSE None]

\* mutant: the loop over the response ends at the first sidecar that cannot be built
fill_fixed_blob_sidecar_list_stops_at_failure(response) ==
    LET Failed(j) == response[j] # "none" /\ IsErr(BlobSidecar_new_efficiently(j - 1, response[j]))
    IN [j \in 1..MaxBlobsPerBlock |->
           IF /\ j <= Len(response) /\ response[j] # "none"
              /\ \A i \in 1..j : ~Failed(i)
           THEN Some(Unwrap(BlobSidecar_new_efficiently(j - 1, response[j]).val))
           ELSE None]

\* FixedBlobSidecarList::default() filled by the loop over the response: the
\* slot of every returned blob whose sidecar can be built and that lies within
\* the list is set, every other slot stays None.
fill_fixed_blob_sidecar_list(response) ==
    [j \in 1..MaxBlobsPerBlock |->
        IF j <= Len(response) /\ response[j] # "none" /\ IsOk(BlobSidecar_new_efficiently(j - 1, response[j]))
        THEN Some(Unwrap(BlobSidecar_new_efficiently(j - 1, response[j]).val))
        ELSE None]

\* fixed_blob_sidecar_list.into_iter().flat_map(|b| b.clone()).collect()
populated(list) ==
    LET sel == SelectSeq(list, IsSome)
    IN [j \in 1..Len(sel) |-> Unwrap(sel[j])]

\* DataColumnSidecar::build_sidecars(&blobs, ..)
build_sidecars(blob_list) == [columns_of |-> blob_list]

NoChannel == <<>>
\* tokio::sync::mpsc::channel(1): nothing buffered, both ends in the call's hands
channel_new == [buffer |-> <<>>, sender |-> "fetch", receiver |-> "fetch"]

\* chain.task_executor.spawn_handle(task, name): the handle of the task now
\* running, or None from a runtime that is shutting down, the task dropped unrun
spawn_handle(spawn_ok) == IF spawn_ok THEN Some("compute_data_columns") ELSE None

FetchOutcome(pc, r, list, events, bpc, bblobs, chan) == [pc |-> pc, ret |-> r, list |-> list, events |-> events, build_pc |-> bpc, build_blobs |-> bblobs, channel |-> chan]

\* mutant: an answer without any blob is carried on like any other
fetch_on_response_no_short_circuit(n, response, peer_das_enabled, header_ok, kzg_opt, spawn_ok) ==
    LET list == fill_fixed_blob_sidecar_list(response)
    IN FetchOutcome("commit", NoRet, list, <<Event("publish", "Blobs", populated(list), FALSE)>>, "none", <<>>, channel_new)

\* mutant: the plain sidecars are published on the column path as well
fetch_on_response_always_blobs(n, response, peer_das_enabled, header_ok, kzg_opt, spawn_ok) ==
    LET num_fetched_blobs == num_fetched_blobs_of(response)
        list == fill_fixed_blob_sidecar_list(response)
        pub == Event("publish", "Blobs", populated(list), FALSE)
    IN IF num_fetched_blobs = 0
       THEN FetchOutcome("returned", Ok(Unit), <<>>, <<>>, "none", <<>>, NoChannel)
       ELSE IF peer_das_enabled /\ ~(num_fetched_blobs < n) /\ IsSome(kzg_opt) /\ spawn_ok /\ header_ok
       THEN FetchOutcome("commit", NoRet, list, <<Event("spawn", "", populated(list), FALSE), pub>>, "spawned", populated(list), [channel_new EXCEPT !.sender = "task"])
       ELSE FetchOutcome("commit", NoRet, list, <<pub>>, "none", <<>>, channel_new)

\* mutant: the sidecars are published as plain blobs whatever the fork enables
fetch_on_response_no_columns(n, response, peer_das_enabled, header_ok, kzg_opt, spawn_ok) ==
    LET num_fetched_blobs == num_fetched_blobs_of(response)
        list == fill_fixed_blob_sidecar_list(response)
    IN IF num_fetched_blobs = 0
       THEN FetchOutcome("returned", Ok(Unit), <<>>, <<>>, "none", <<>>, NoChannel)
       ELSE IF ~header_ok
       THEN FetchOutcome("returned", Err("BeaconChainError"), <<>>, <<>>, "none", <<>>, NoChannel)
       ELSE FetchOutcome("commit", NoRet, list, <<Event("publish", "Blobs", populated(list), FALSE)>>, "none", <<>>, channel_new)

\* mutant: an answer with some but not all of the blobs fails the call
fetch_on_response_partial_fails(n, response, peer_das_enabled, header_ok, kzg_opt, spawn_ok) ==
    LET num_fetched_blobs == num_fetched_blobs_of(response)
        list == fill_fixed_blob_sidecar_list(response)
    IN IF num_fetched_blobs = 0
       THEN FetchOutcome("returned", Ok(Unit), <<>>, <<>>, "none", <<>>, NoChannel)
       ELSE IF num_fetched_blobs < n
       THEN FetchOutcome("returned", Err("RequestFailed"), <<>>, <<>>, "none", <<>>, NoChannel)
       ELSE IF ~header_ok
       THEN FetchOutcome("returned", Err("BeaconChainError"), <<>>, <<>>, "none", <<>>, NoChannel)
       ELSE IF peer_das_enabled
       THEN IF ~IsSome(kzg_opt)
            THEN FetchOutcome("panicked", NoRet, list, <<>>, "none", <<>>, channel_new)
            ELSE IF ~spawn_ok
            THEN FetchOutcome("returned", Err("RuntimeShutdown"), list, <<>>, "none", <<>>,
                              [channel_new EXCEPT !.sender = "dropped", !.receiver = "dropped"])
            ELSE FetchOutcome("commit", NoRet, list, <<Event("spawn", "", populated(list), FALSE)>>,
                              "spawned", populated(list), [channel_new EXCEPT !.sender = "task"])
       ELSE FetchOutcome("commit", NoRet, list, <<Event("publish", "Blobs", populated(list), FALSE)>>,
                         "none", <<>>, channel_new)

\* mutant: the task runs although its spawn was reported as failed
fetch_on_response_zombie_task(n, response, peer_das_enabled, header_ok, kzg_opt, spawn_ok) ==
    LET num_fetched_blobs == num_fetched_blobs_of(response)
        list == fill_fixed_blob_sidecar_list(response)
    IN IF num_fetched_blobs = 0
       THEN FetchOutcome("returned", Ok(Unit), <<>>, <<>>, "none", <<>>, NoChannel)
       ELSE IF ~header_ok
       THEN FetchOutcome("returned", Err("BeaconChainError"), <<>>, <<>>, "none", <<>>, NoChannel)
       ELSE IF peer_das_enabled /\ ~(num_fetched_blobs < n)
       THEN IF ~IsSome(kzg_opt)
            THEN FetchOutcome("panicked", NoRet, list, <<>>, "none", <<>>, channel_new)
            ELSE IF ~spawn_ok
            THEN FetchOutcome("returned", Err("RuntimeShutdown"), list, <<>>, "spawned", populated(list),
                              [channel_new EXCEPT !.sender = "task", !.receiver = "dropped"])
            ELSE FetchOutcome("commit", NoRet, list, <<Event("spawn", "", populated(list), FALSE)>>,
                              "spawned", populated(list), [channel_new EXCEPT !.sender = "task"])
       ELSE FetchOutcome("commit", NoRet, list, <<Event("publish", "Blobs", populated(list), FALSE)>>,
                         "none", <<>>, channel_new)

\* fetch_blobs_and_publish from the engine's answer to the call of
\* process_engine_blobs: classification of the answer, the sidecar list, then
\* either the compute_data_columns task or the publication of the sidecars.
fetch_on_response(n, response, peer_das_enabled, header_ok, kzg_opt, spawn_ok) ==
    LET num_fetched_blobs == num_fetched_blobs_of(response)
        all_blobs_fetched == ~(num_fetched_blobs < n)
        list == fill_fixed_blob_sidecar_list(response)
    IN IF num_fetched_blobs = 0
       THEN FetchOutcome("returned", Ok(Unit), <<>>, <<>>, "none", <<>>, NoChannel)
       ELSE IF ~header_ok
       THEN FetchOutcome("returned", Err("BeaconChainError"), <<>>, <<>>, "none", <<>>, NoChannel)
       ELSE IF peer_das_enabled /\ all_blobs_fetched
       THEN IF ~IsSome(kzg_opt)
            THEN FetchOutcome("panicked", NoRet, list, <<>>, "none", <<>>, channel_new)
            ELSE IF spawn_handle(spawn_ok) = None
            THEN FetchOutcome("returned", Err("RuntimeShutdown"), list, <<>>, "none", <<>>,
                              [channel_new EXCEPT !.sender = "dropped", !.receiver = "dropped"])
            ELSE FetchOutcome("commit", NoRet, list, <<Event("spawn", "", populated(list), FALSE)>>,
                              "spawned", populated(list), [channel_new EXCEPT !.sender = "task"])
       ELSE FetchOutcome("commit", NoRet, list, <<Event("publish", "Blobs", populated(list), FALSE)>>,
                         "none", <<>>, channel_new)

\* The call starts: versioned hashes, the short circuit on none, the engine request.
FetchStart ==
    /\ fetch_pc = "idle"
    /\ \E c \in FetchCommitments, el \in BOOLEAN, das \in BOOLEAN, sn \in BOOLEAN :
          LET versioned_hashes == versioned_hashes_of(c)
          IN /\ op' = "fetch_blobs_and_publish"
             /\ arg' = [commitments |-> c, execution_layer |-> el,
                        peer_das_enabled |-> das, is_supernode |-> sn,
                        response |-> NoRet]
             /\ IF versioned_hashes = <<>>
                THEN fetch_pc' = "returned" /\ ret' = Ok(Unit) /\ fetch_log' = fetch_log
                ELSE IF ~el
                THEN fetch_pc' = "returned" /\ ret' = Err("ExecutionLayerMissing") /\ fetch_log' = fetch_log
                ELSE /\ fetch_pc' = "get_blobs"
                     /\ ret' = ret
                     /\ fetch_log' = Append(fetch_log, Event("get_blobs", "", versioned_hashes, FALSE))
    /\ UNCHANGED <<chainVars, fetchRest, vlog, fixed_blob_sidecar_list, build_pc, build_blobs, data_columns_channel>>

\* get_blobs fails as a whole: the call returns RequestFailed.
FetchRequestFails ==
    /\ fetch_pc = "get_blobs"
    /\ fetch_pc' = "returned"
    /\ ret' = Err("RequestFailed")
    /\ arg' = [arg EXCEPT !.response = Err("RequestFailed")]
    /\ UNCHANGED <<chainVars, fetchRest, op, vlog, fixed_blob_sidecar_list, fetch_log, build_pc, build_blobs, data_columns_channel>>

\* get_blobs answers: the call runs on, without suspending, to the point where
\* it calls process_engine_blobs.
FetchEngineResponds ==
    /\ fetch_pc = "get_blobs"
    /\ \E response \in EngineResponses(Len(versioned_hashes_of(arg.commitments))), header_ok \in BOOLEAN, spawn_ok \in BOOLEAN :
          LET out == fetch_on_response(Len(versioned_hashes_of(arg.commitments)), response, arg.peer_das_enabled, header_ok, kzg, spawn_ok)
          IN /\ arg' = [arg EXCEPT !.response = Ok(response)]
             /\ fetch_pc' = out.pc
             /\ ret' = IF out.pc = "returned" THEN out.ret ELSE ret
             /\ fixed_blob_sidecar_list' = out.list
             /\ fetch_log' = fetch_log \o out.events
             /\ build_pc' = out.build_pc
             /\ build_blobs' = out.build_blobs
             /\ data_columns_channel' = out.channel
    /\ UNCHANGED <<chainVars, fetchRest, op, vlog>>

\* mutant: persistence is called before the sidecars are published
FetchCommit_before_publish ==
    /\ fetch_pc = "commit"
    /\ fetch_pc' = "process_engine_blobs"
    /\ fetch_log' =
           LET call == Event("process_engine_blobs", "", fixed_blob_sidecar_list, TRUE)
               n == Len(fetch_log)
           IN IF n > 0 /\ fetch_log[n].ev = "publish"
              THEN SubSeq(fetch_log, 1, n - 1) \o <<call, fetch_log[n]>>
              ELSE Append(fetch_log, call)
    /\ data_columns_channel' = [data_columns_channel EXCEPT !.receiver = "persistence"]
    /\ UNCHANGED <<chainVars, fetchRest, callVars, fixed_blob_sidecar_list, build_pc, build_blobs>>

\* mutant: the call waits for the end of the task before it commits
FetchCommit_awaits_build ==
    /\ fetch_pc = "commit"
    /\ build_pc \in {"none", "finished"}
    /\ fetch_pc' = "process_engine_blobs"
    /\ fetch_log' = Append(fetch_log, Event("process_engine_blobs", "", fixed_blob_sidecar_list, TRUE))
    /\ data_columns_channel' = [data_columns_channel EXCEPT !.receiver = "persistence"]
    /\ UNCHANGED <<chainVars, fetchRest, callVars, fixed_blob_sidecar_list, build_pc, build_blobs>>

\* chain.process_engine_blobs(slot, block_root, fixed_blob_sidecar_list.clone(),
\* Some(data_columns_receiver)) is called and the call suspends on it.
FetchCommit ==
    /\ fetch_pc = "commit"
    /\ fetch_pc' = "process_engine_blobs"
    /\ fetch_log' = Append(fetch_log, Event("process_engine_blobs", "", fixed_blob_sidecar_list, TRUE))
    /\ data_columns_channel' = [data_columns_channel EXCEPT !.receiver = "persistence"]
    /\ UNCHANGED <<chainVars, fetchRest, callVars, fixed_blob_sidecar_list, build_pc, build_blobs>>

\* process_engine_blobs comes back, with success or an error, and the call
\* returns it; the receiver, and a sender that was not moved into a task, go.
FetchProcessed ==
    /\ fetch_pc = "process_engine_blobs"
    /\ \E processed \in BOOLEAN :
          ret' = IF processed THEN Ok(Unit) ELSE Err("BlockError")
    /\ fetch_pc' = "returned"
    /\ data_columns_channel' =
           [data_columns_channel EXCEPT
               !.receiver = "dropped",
               !.sender = IF data_columns_channel.sender = "fetch" THEN "dropped" ELSE @]
    /\ UNCHANGED <<chainVars, fetchRest, op, arg, vlog, fixed_blob_sidecar_list, fetch_log, build_pc, build_blobs>>

\* The task: DataColumnSidecar::build_sidecars; on an error the task ends.
BuildColumns ==
    /\ build_pc = "spawned"
    /\ \E built \in BOOLEAN :
          IF built
          THEN build_pc' = "built" /\ data_columns_channel' = data_columns_channel
          ELSE /\ build_pc' = "finished"
               /\ data_columns_channel' = [data_columns_channel EXCEPT !.sender = "dropped"]
    /\ UNCHANGED <<chainVars, fetchRest, callVars, fetch_pc, fixed_blob_sidecar_list, fetch_log, build_blobs>>

\* mutant: the task ends when the columns cannot be sent
BuildSend_aborts_on_failure ==
    /\ build_pc = "built"
    /\ IF data_columns_channel.receiver # "dropped" /\ data_columns_channel.buffer = <<>>
       THEN /\ build_pc' = "sent"
            /\ data_columns_channel' = [data_columns_channel EXCEPT !.buffer = <<build_sidecars(build_blobs)>>]
            /\ fetch_log' = Append(fetch_log, Event("try_send", "Ok", build_sidecars(build_blobs), FALSE))
       ELSE /\ build_pc' = "finished"
            /\ data_columns_channel' = [data_columns_channel EXCEPT !.sender = "dropped"]
            /\ fetch_log' = Append(fetch_log, Event("try_send", "Err", build_sidecars(build_blobs), FALSE))
    /\ UNCHANGED <<chainVars, fetchRest, callVars, fetch_pc, fixed_blob_sidecar_list, build_blobs>>

\* The task: data_columns_sender.try_send(data_columns.clone()); a failure is logged.
BuildSend ==
    /\ build_pc = "built"
    /\ build_pc' = "sent"
    /\ IF data_columns_channel.receiver # "dropped" /\ data_columns_channel.buffer = <<>>
       THEN /\ data_columns_channel' = [data_columns_channel EXCEPT !.buffer = <<build_sidecars(build_blobs)>>]
            /\ fetch_log' = Append(fetch_log, Event("try_send", "Ok", build_sidecars(build_blobs), FALSE))
       ELSE /\ data_columns_channel' = data_columns_channel
            /\ fetch_log' = Append(fetch_log, Event("try_send", "Err", build_sidecars(build_blobs), FALSE))
    /\ UNCHANGED <<chainVars, fetchRest, callVars, fetch_pc, fixed_blob_sidecar_list, build_blobs>>

\* The task: a supernode publishes the columns; the task ends.
BuildPublish ==
    /\ build_pc = "sent"
    /\ build_pc' = "finished"
    /\ fetch_log' = IF arg.is_supernode
                    THEN Append(fetch_log, Event("publish", "DataColumns", build_sidecars(build_blobs), FALSE))
                    ELSE fetch_log
    /\ data_columns_channel' = [data_columns_channel EXCEPT !.sender = "dropped"]
    /\ UNCHANGED <<chainVars, fetchRest, callVars, fetch_pc, fixed_blob_sidecar_list, build_blobs>>

InitFetch ==
    /\ kzg \in OptionOf({"trusted_setup"})
    /\ slot_clock = None
    /\ finalized_epoch = 0
    /\ fork_choice = {}
    /\ early_attester_cache = None
    /\ validator_pubkey_cache = 0
    /\ data_availability_boundary = None
    /\ InitCall
    /\ InitRestIdle

NextFetch ==
    \/ FetchStart
    \/ FetchRequestFails
    \/ FetchEngineResponds
    \/ FetchCommit
    \/ FetchProcessed
    \/ BuildColumns
    \/ BuildSend
    \/ BuildPublish

SpecFetch == InitFetch /\ [][NextFetch]_vars

\* ---------------------------------------------------------------- persistence that consumes the channel
\* The persistence/import path behind process_engine_blobs, which makes the
\* block attestable and then consumes the handoff channel: it awaits
\* data_columns_receiver.recv().
PersistenceRecv ==
    /\ fetch_pc = "process_engine_blobs"
    /\ data_columns_channel.receiver = "persistence"
    /\ data_columns_channel' = [data_columns_channel EXCEPT !.receiver = "waiting"]
    /\ UNCHANGED <<chainVars, fetchRest, callVars, fetch_pc, fixed_blob_sidecar_list, fetch_log, build_pc, build_blobs>>

\* recv() completes with the buffered columns, or with None once the channel is
\* empty and every sender is gone; process_engine_blobs comes back and the call
\* returns, dropping the receiver and a sender that was not moved into a task.
PersistenceReturns ==
    /\ fetch_pc = "process_engine_blobs"
    /\ data_columns_channel.receiver = "waiting"
    /\ data_columns_channel.buffer # <<>> \/ data_columns_channel.sender = "dropped"
    /\ \E processed \in BOOLEAN :
          ret' = IF processed THEN Ok(Unit) ELSE Err("BlockError")
    /\ fetch_pc' = "returned"
    /\ fetch_log' = Append(fetch_log, Event("recv", IF data_columns_channel.buffer # <<>> THEN "Some" ELSE "None", data_columns_channel.buffer, TRUE))
    /\ data_columns_channel' =
           [data_columns_channel EXCEPT
               !.buffer = <<>>,
               !.receiver = "dropped",
               !.sender = IF data_columns_channel.sender = "fetch" THEN "dropped" ELSE @]
    /\ UNCHANGED <<chainVars, fetchRest, op, arg, vlog, fixed_blob_sidecar_list, build_pc, build_blobs>>

NextFetchWaits ==
    \/ FetchStart
    \/ FetchRequestFails
    \/ FetchEngineResponds
    \/ FetchCommit
    \/ PersistenceRecv
    \/ PersistenceReturns
    \/ BuildColumns
    \/ BuildSend
    \/ BuildPublish

SpecFetchWaits == InitFetch /\ [][NextFetchWaits]_vars

\* ---------------------------------------------------------------- blob_sidecar.rs
\* Hash256 values: Hash256::zero() and the roots of the blocks below.
ZeroHash == 0

\* The fields of a BeaconBlock that a sidecar repeats.
SidecarBlocks == [slot : Slots, parent_root : Roots, proposer_index : Validators]

\* block.canonical_root(): the tree hash of the block, no two blocks alike
canonical_root(block) ==
    1 + block.slot + (MaxSlot + 1) * ((block.parent_root - 1) + NumRoots * block.proposer_index)

Hashes == {ZeroHash} \cup {canonical_root(b) : b \in SidecarBlocks}

\* struct BlobIdentifier { block_root, index }
BlobIdentifier(block_root, index) == [block_root |-> block_root, index |-> index]
BlobIdentifiers == {BlobIdentifier(r, i) : r \in {ZeroHash} \cup Roots, i \in BlobIndices}

\* u64::cmp
u64_cmp(x, y) == IF x < y THEN "Less" ELSE IF x = y THEN "Equal" ELSE "Greater"

\* mutant: the order a derive would give, block root first, then index
BlobIdentifier_cmp_derived(self, other) ==
    IF self.block_root # other.block_root
    THEN u64_cmp(self.block_root, other.block_root)
    ELSE u64_cmp(self.index, other.index)

\* impl Ord for BlobIdentifier: cmp
BlobIdentifier_cmp(self, other) == u64_cmp(self.index, other.index)

\* impl PartialOrd for BlobIdentifier: partial_cmp
BlobIdentifier_partial_cmp(self, other) ==
    Some(IF self.index < other.index THEN "Less" ELSE IF self.index = other.index THEN "Equal" ELSE "Greater")

\* derive(PartialEq) for BlobIdentifier: field by field
BlobIdentifier_eq(self, other) ==
    self.block_root = other.block_root /\ self.index = other.index

\* struct BlobSidecar
BlobSidecar(block_root, index, slot, block_parent_root, proposer_index, blob, kzg_commitment, kzg_proof) ==
    [block_root |-> block_root, index |-> index, slot |-> slot,
     block_parent_root |-> block_parent_root, proposer_index |-> proposer_index,
     blob |-> blob, kzg_commitment |-> kzg_commitment, kzg_proof |-> kzg_proof]

\* BlobSidecar::id
BlobSidecar_id(self) == BlobIdentifier(self.block_root, self.index)

\* BlobSidecar::empty
BlobSidecar_empty == BlobSidecar(ZeroHash, 0, 0, ZeroHash, 0, 0, 0, 0)

\* derive(Decode) for BlobSidecar: the fields as the bytes give them, one by one
BlobSidecar_from_ssz_bytes(bytes) ==
    Ok(BlobSidecar(bytes[1], bytes[2], bytes[3], bytes[4], bytes[5], bytes[6], bytes[7], bytes[8]))

\* The encodings a peer may send.
SidecarBytes ==
    Hashes \X BlobIndices \X Slots \X ({ZeroHash} \cup Roots) \X Validators \X {1, 2} \X {11} \X {21}

KzgProofLists == {<<>>, <<21>>, <<21, 22>>}

\* <BlobSidecar as Sidecar>::build_sidecar
BlobSidecar_build_sidecar(blobs_list, block, expected_kzg_commitments, kzg_proofs) ==
    LET beacon_block_root == canonical_root(block)
        Missing(blob_index) ==
            IF blob_index > Len(expected_kzg_commitments) THEN "KZG commitment should exist for blob"
            ELSE IF blob_index > Len(kzg_proofs) THEN "KZG proof should exist for blob"
            ELSE ""
        failed == {i \in 1..Len(blobs_list) : Missing(i) # ""}
    IN IF failed # {}
       THEN Err(Missing(CHOOSE i \in failed : \A j \in failed : i <= j))
       ELSE Ok([i \in 1..Len(blobs_list) |->
                   BlobSidecar(beacon_block_root, i - 1, block.slot, block.parent_root,
                               block.proposer_index, blobs_list[i],
                               expected_kzg_commitments[i], kzg_proofs[i])])

\* BlobSidecar::build_sidecar(blobs, &block, &expected_kzg_commitments, kzg_proofs)
BlobSidecarBuildSidecar ==
    /\ op = "none"
    /\ \E l \in BlobLists, b \in SidecarBlocks, c \in CommitmentLists, q \in KzgProofLists :
          /\ op' = "BlobSidecar::build_sidecar"
          /\ arg' = [blobs |-> l, block |-> b, expected_kzg_commitments |-> c, kzg_proofs |-> q]
          /\ ret' = BlobSidecar_build_sidecar(l, b, c, q)
          /\ vlog' = <<>>
    /\ UNCHANGED <<chainVars, restVars>>

\* BlobSidecar::empty()
BlobSidecarEmpty ==
    /\ op = "none"
    /\ op' = "BlobSidecar::empty"
    /\ arg' = NoArg
    /\ ret' = Ok(<<BlobSidecar_empty>>)
    /\ vlog' = <<>>
    /\ UNCHANGED <<chainVars, restVars>>

\* BlobSidecar::from_ssz_bytes(bytes), a sidecar as it arrives from a peer
BlobSidecarDecode ==
    /\ op = "none"
    /\ \E bytes \in SidecarBytes :
          /\ op' = "BlobSidecar::from_ssz_bytes"
          /\ arg' = [bytes |-> bytes]
          /\ ret' = Ok(<<Unwrap(BlobSidecar_from_ssz_bytes(bytes).val)>>)
          /\ vlog' = <<>>
    /\ UNCHANGED <<chainVars, restVars>>

\* a.cmp(&b) and its companions on three identifiers
BlobIdentifierCmp ==
    /\ op = "none"
    /\ \E a \in BlobIdentifiers, b \in BlobIdentifiers, c \in BlobIdentifiers :
          /\ op' = "BlobIdentifier::cmp"
          /\ arg' = [a |-> a, b |-> b, c |-> c]
          /\ ret' = Ok([aa |-> BlobIdentifier_cmp(a, a),
                        ab |-> BlobIdentifier_cmp(a, b),
                        ba |-> BlobIdentifier_cmp(b, a),
                        bc |-> BlobIdentifier_cmp(b, c),
                        ac |-> BlobIdentifier_cmp(a, c),
                        partial_ab |-> BlobIdentifier_partial_cmp(a, b),
                        eq_ab |-> BlobIdentifier_eq(a, b)])
          /\ vlog' = <<>>
    /\ UNCHANGED <<chainVars, restVars>>

InitSidecar ==
    /\ kzg = None
    /\ slot_clock = None
    /\ finalized_epoch = 0
    /\ fork_choice = {}
    /\ early_attester_cache = None
    /\ validator_pubkey_cache = 0
    /\ data_availability_boundary = None
    /\ InitCall
    /\ InitRestIdle

NextSidecar ==
    \/ BlobSidecarBuildSidecar
    \/ BlobSidecarEmpty
    \/ BlobSidecarDecode
    \/ BlobIdentifierCmp

SpecSidecar == InitSidecar /\ [][NextSidecar]_vars

\* ---------------------------------------------------------------- the light client
LcSlots == 0..LcMaxSlot

\* SyncCommittee::temporary(), the placeholder, and two committees of the chain
SyncCommittee_temporary == "temporary"
SyncCommittees == {SyncCommittee_temporary, "committee_a", "committee_b"}

\* LightClientHeader: of the beacon header only the slot is read
LightClientHeader(slot) == [slot |-> slot]
LightClientHeader_empty == LightClientHeader(0)

\* slot.epoch(slots_per_epoch).sync_committee_period(spec)
sync_committee_period(slot, slots_per_epoch) == (slot \div slots_per_epoch) \div EpochsPerSyncCommitteePeriod

\* LightClientBootstrap as the provider sends it: valid is what
\* is_valid_light_client_header finds, root the tree hash root of the header.
Bootstraps == [slot : LcSlots, valid : BOOLEAN, root : Roots, current_sync_committee : SyncCommittees]

StoreError(kind) == [kind |-> kind]

\* initialize_light_client_store(trusted_block_root, bootstrap)
initialize_light_client_store(trusted_block_root, bootstrap) ==
    IF ~bootstrap.valid
    THEN Err(StoreError("InvalidLightClientHeader"))
    ELSE IF bootstrap.root # trusted_block_root
    THEN Err(StoreError("TrustedBlockRootMismatch"))
    ELSE Ok([finalized_header |-> LightClientHeader(bootstrap.slot),
             current_sync_committee |-> bootstrap.current_sync_committee,
             next_sync_committee |-> SyncCommittee_temporary,
             best_valid_update |-> None,
             optimistic_header |-> LightClientHeader(bootstrap.slot),
             previous_max_active_participants |-> 0,
             current_max_active_participants |-> 0])

\* LightClientStore::finalized_period and optimistic_period
finalized_period(st) == sync_committee_period(st.finalized_header.slot, SlotsPerEpoch)
optimistic_period(st) == sync_committee_period(st.optimistic_header.slot, SlotsPerEpoch)

\* LightClientStore::is_next_sync_committee_known
is_next_sync_committee_known(st) == st.next_sync_committee = SyncCommittee_temporary

\* LightClientUpdate: the fields apply_light_client_update reads
LightClientUpdate(finalized_header, next_sync_committee) == [finalized_header |-> finalized_header, next_sync_committee |-> next_sync_committee]
LightClientUpdates == {LightClientUpdate(LightClientHeader(slot), c) : slot \in LcSlots, c \in SyncCommittees}

\* mutant: the finalized header of the update is taken whatever its slot
apply_light_client_update_takes_any_header(st, update) ==
    LET store_period == sync_committee_period(st.finalized_header.slot, SecondsPerSlot)
        update_finalized_period == sync_committee_period(update.finalized_header.slot, SecondsPerSlot)
        rotated ==
            IF ~is_next_sync_committee_known(st)
            THEN [st EXCEPT !.next_sync_committee = update.next_sync_committee]
            ELSE IF update_finalized_period = store_period + 1
            THEN [st EXCEPT !.current_sync_committee = st.next_sync_committee,
                            !.next_sync_committee = update.next_sync_committee,
                            !.previous_max_active_participants = st.current_max_active_participants,
                            !.current_max_active_participants = 0]
            ELSE st
    IN [rotated EXCEPT !.finalized_header = update.finalized_header]

\* LightClientSyncService::apply_light_client_update, under the store's write lock
apply_light_client_update(st, update) ==
    LET store_period == sync_committee_period(st.finalized_header.slot, SecondsPerSlot)
        update_finalized_period == sync_committee_period(update.finalized_header.slot, SecondsPerSlot)
        rotated ==
            IF ~is_next_sync_committee_known(st)
            THEN [st EXCEPT !.next_sync_committee = update.next_sync_committee]
            ELSE IF update_finalized_period = store_period + 1
            THEN [st EXCEPT !.current_sync_committee = st.next_sync_committee,
                            !.next_sync_committee = update.next_sync_committee,
                            !.previous_max_active_participants = st.current_max_active_participants,
                            !.current_max_active_participants = 0]
            ELSE st
    IN IF update.finalized_header.slot > rotated.finalized_header.slot
       THEN IF update.finalized_header.slot > rotated.optimistic_header.slot
            THEN [rotated EXCEPT !.finalized_header = update.finalized_header,
                                 !.optimistic_header = update.finalized_header]
            ELSE [rotated EXCEPT !.finalized_header = update.finalized_header]
       ELSE rotated

\* process_light_client_update: the store after the update, the store it
\* found and the update, for the record.
LcState(st, pre, app, r) == [store |-> st, store_pre |-> pre, applied |-> app, ret |-> r]
process_light_client_update(acc, update) ==
    LcState(apply_light_client_update(acc.store, update), acc.store,
            [count |-> IF acc.applied.count < 2 THEN acc.applied.count + 1 ELSE 2, update |-> Some(update)],
            Ok(Unit))

\* process_light_client_optimistic_update
process_light_client_optimistic_update(acc) ==
    process_light_client_update(acc, LightClientUpdate(LightClientHeader_empty, SyncCommittee_temporary))

\* process_light_client_finality_update
process_light_client_finality_update(acc, finalized_header) ==
    process_light_client_update(acc, LightClientUpdate(finalized_header, SyncCommittee_temporary))

\* ForkVersionedResponse: the fork name and the data
Versioned(version, data) == [version |-> version, data |-> data]
VersionedUpdates ==
    {Versioned("Altair", u) : u \in LightClientUpdates}
        \cup {Versioned("Bellatrix", LightClientUpdate(LightClientHeader_empty, SyncCommittee_temporary))}

\* What the data provider may answer to get_light_client_updates
UpdatesAnswers ==
    {Err("DataProviderError")}
        \cup {Ok(l) : l \in UNION {[1..n -> VersionedUpdates] : n \in 0..MaxUpdates}}

\* The loop of get_light_client_update over the updates received, from the
\* i-th on: the first error ends it, the updates before it stay applied.
RECURSIVE for_each_update(_, _, _, _)
for_each_update(acc, light_client_updates, i, now) ==
    IF i > Len(light_client_updates)
    THEN [acc EXCEPT !.ret = Ok(Unit)]
    ELSE IF light_client_updates[i].version # "Altair"
    THEN [acc EXCEPT !.ret = Err("UnsupportedFork")]
    ELSE IF now = None
    THEN [acc EXCEPT !.ret = Err("UnableToReadSlot")]
    ELSE for_each_update(process_light_client_update(acc, light_client_updates[i].data), light_client_updates, i + 1, now)

\* get_light_client_update(start_period, count), given the provider's answer
get_light_client_update(acc, answer, now) ==
    IF IsErr(answer)
    THEN [acc EXCEPT !.ret = Err("DataProviderError")]
    ELSE for_each_update(acc, Unwrap(answer.val), 1, now)

LcNow == LcState(Unwrap(store), store_pre, applied, ret)
SyncFrame(current_period, fin_period, iterations, period_before, received) == [current_period |-> current_period, finalized_period |-> fin_period, iterations |-> iterations, period_before |-> period_before, received |-> received]

\* LightClient::new: the bootstrap is fetched and the store initialized; a
\* failure of either ends the client before its service starts.
LightClientNew ==
    /\ sync_pc = "uninit"
    /\ \E trusted_block_root \in Roots, fetched \in BOOLEAN, bootstrap \in Bootstraps :
          LET r == IF fetched THEN initialize_light_client_store(trusted_block_root, bootstrap)
                   ELSE Err("Error fetching LightClientBootstrap")
          IN /\ op' = "LightClient::new"
             /\ ret' = r
             /\ store' = IF IsOk(r) THEN r.val ELSE None
             /\ sync_pc' = IF IsOk(r) THEN "idle" ELSE "failed"
    /\ UNCHANGED <<chainVars, lcRest, arg, vlog, store_pre, applied, sync_frame, join_pending>>

\* sync() up to its first await or to the loop
SyncStart ==
    /\ sync_pc = "idle"
    /\ op' = "sync"
    /\ IF slot_clock = None
       THEN /\ ret' = Err("UnableToReadSlot")
            /\ sync_pc' = "returned"
            /\ sync_frame' = <<>>
       ELSE LET current_period == sync_committee_period(Unwrap(slot_clock), SecondsPerSlot)
                optimistic == optimistic_period(Unwrap(store))
                finalized == finalized_period(Unwrap(store))
                known == is_next_sync_committee_known(Unwrap(store))
            IN /\ ret' = NoRet
               /\ sync_frame' = SyncFrame(current_period, finalized, 0, finalized, 0)
               /\ sync_pc' = IF (finalized = optimistic /\ known) \/ finalized = current_period
                             THEN "first_fetch" ELSE "loop"
    /\ UNCHANGED <<chainVars, lcRest, arg, vlog, store, store_pre, applied, join_pending>>

\* sync(): get_light_client_update(finalized_period, 1) before the loop; the
\* local finalized_period is not read again.
SyncFirstFetch ==
    /\ sync_pc = "first_fetch"
    /\ \E answer \in UpdatesAnswers :
          LET out == get_light_client_update(LcNow, answer, slot_clock)
          IN /\ store' = Some(out.store)
             /\ store_pre' = out.store_pre
             /\ applied' = out.applied
             /\ IF IsErr(out.ret)
                THEN ret' = out.ret /\ sync_pc' = "returned"
                ELSE ret' = NoRet /\ sync_pc' = "loop"
    /\ UNCHANGED <<chainVars, lcRest, op, arg, vlog, sync_frame, join_pending>>

\* sync(): one iteration of `while finalized_period + 1 < current_period`
SyncCatchUp ==
    /\ sync_pc = "loop"
    /\ sync_frame.finalized_period + 1 < sync_frame.current_period
    /\ sync_frame.iterations < MaxSyncIterations
    /\ \E answer \in UpdatesAnswers :
          LET out == get_light_client_update(LcNow, answer, slot_clock)
          IN /\ store' = Some(out.store)
             /\ store_pre' = out.store_pre
             /\ applied' = out.applied
             /\ IF IsErr(out.ret)
                THEN /\ ret' = out.ret /\ sync_pc' = "returned"
                     /\ sync_frame' = sync_frame
                ELSE /\ ret' = NoRet /\ sync_pc' = "loop"
                     /\ sync_frame' = SyncFrame(sync_frame.current_period, finalized_period(out.store),
                                                sync_frame.iterations + 1, sync_frame.finalized_period,
                                                Len(Unwrap(answer.val)))
    /\ UNCHANGED <<chainVars, lcRest, op, arg, vlog, join_pending>>

\* sync(): the loop's condition is false, Ok(())
SyncReturn ==
    /\ sync_pc = "loop"
    /\ ~(sync_frame.finalized_period + 1 < sync_frame.current_period)
    /\ ret' = Ok(Unit)
    /\ sync_pc' = "returned"
    /\ UNCHANGED <<chainVars, lcRest, op, arg, vlog, store, store_pre, applied, sync_frame, join_pending>>

\* update(): tokio::join! of the two requests
Update ==
    /\ sync_pc = "returned"
    /\ sync_pc' = "update"
    /\ join_pending' = {"optimistic", "finality"}
    /\ op' = "update"
    /\ ret' = NoRet
    /\ UNCHANGED <<chainVars, lcRest, arg, vlog, store, store_pre, applied, sync_frame>>

\* get_light_client_optimistic_update, given the provider's answer
GetLightClientOptimisticUpdate ==
    /\ sync_pc = "update"
    /\ "optimistic" \in join_pending
    /\ \E fetched \in BOOLEAN, version \in {"Altair", "Bellatrix"} :
          LET out == IF ~fetched THEN [LcNow EXCEPT !.ret = Err("DataProviderError")]
                     ELSE IF version # "Altair" THEN [LcNow EXCEPT !.ret = Err("UnsupportedFork")]
                     ELSE IF slot_clock = None THEN [LcNow EXCEPT !.ret = Err("UnableToReadSlot")]
                     ELSE process_light_client_optimistic_update(LcNow)
          IN /\ store' = Some(out.store)
             /\ store_pre' = out.store_pre
             /\ applied' = out.applied
             /\ ret' = out.ret
    /\ op' = "get_light_client_optimistic_update"
    /\ join_pending' = join_pending \ {"optimistic"}
    /\ UNCHANGED <<chainVars, lcRest, arg, vlog, sync_pc, sync_frame>>

\* get_light_client_finality_update, given the provider's answer
GetLightClientFinalityUpdate ==
    /\ sync_pc = "update"
    /\ "finality" \in join_pending
    /\ \E fetched \in BOOLEAN, version \in {"Altair", "Bellatrix"}, slot \in LcSlots :
          LET out == IF ~fetched THEN [LcNow EXCEPT !.ret = Err("DataProviderError")]
                     ELSE IF version # "Altair" THEN [LcNow EXCEPT !.ret = Err("UnsupportedFork")]
                     ELSE IF slot_clock = None THEN [LcNow EXCEPT !.ret = Err("UnableToReadSlot")]
                     ELSE process_light_client_finality_update(LcNow, LightClientHeader(slot))
          IN /\ store' = Some(out.store)
             /\ store_pre' = out.store_pre
             /\ applied' = out.applied
             /\ ret' = out.ret
    /\ op' = "get_light_client_finality_update"
    /\ join_pending' = join_pending \ {"finality"}
    /\ UNCHANGED <<chainVars, lcRest, arg, vlog, sync_pc, sync_frame>>

\* start(): sleep(slot_duration) after update(), then the next round; the
\* clock has moved on by then.
Sleep ==
    /\ sync_pc = "update"
    /\ join_pending = {}
    /\ sync_pc' = "idle"
    /\ sync_frame' = <<>>
    /\ slot_clock' = IF slot_clock # None /\ Unwrap(slot_clock) < LcMaxSlot
                     THEN Some(Unwrap(slot_clock) + 1) ELSE slot_clock
    /\ UNCHANGED <<finalized_epoch, data_availability_boundary, kzg, fork_choice, early_attester_cache, validator_pubkey_cache>>
    /\ UNCHANGED <<lcRest, callVars, store, store_pre, applied, join_pending>>

InitLightClient ==
    /\ slot_clock \in OptionOf(LcSlots)
    /\ kzg = None
    /\ finalized_epoch = 0
    /\ fork_choice = {}
    /\ early_attester_cache = None
    /\ validator_pubkey_cache = 0
    /\ data_availability_boundary = None
    /\ InitCall
    /\ InitRestIdle

NextLightClient ==
    \/ LightClientNew
    \/ SyncStart
    \/ SyncFirstFetch
    \/ SyncCatchUp
    \/ SyncReturn
    \/ Update
    \/ GetLightClientOptimisticUpdate
    \/ GetLightClientFinalityUpdate
    \/ Sleep

SpecLightClient == InitLightClient /\ [][NextLightClient]_vars

\* ================================================================ properties
\* What the certification calls were given and what they produced.
CertOps == {"into_available_block", "AvailableBlock::new"}
CalledBlock == IF op = "AvailableBlock::new" THEN arg.block ELSE arg.wrapper.block
SidecarsSupplied == op # "AvailableBlock::new" /\ arg.wrapper.tag = "BlockAndBlob"
Certified == Unwrap(ret.val)
\* the DA flag of the call: given to AvailableBlock::new, computed otherwise
Required ==
    IF op = "AvailableBlock::new" THEN arg.da_check_required = "Yes"
    ELSE /\ IsSome(data_availability_boundary)
         /\ CalledBlock.slot \div SlotsPerEpoch >= Unwrap(data_availability_boundary)

\* bundle went through verify_data_availability for this block and root, and passed
PassedVerifier(bundle, block, block_root) ==
    /\ IsSome(block.blob_kzg_commitments)
    /\ \E i \in 1..Len(vlog) :
          /\ vlog[i].blob_sidecar = bundle
          /\ vlog[i].kzg_commitments = Unwrap(block.blob_kzg_commitments)
          /\ vlog[i].block_slot = block.slot
          /\ vlog[i].block_root = block_root
          /\ IsOk(vlog[i].result)

\* bundle satisfies the three availability checks for this block and root
IsAvailable(bundle, block, block_root) ==
    /\ IsSome(block.blob_kzg_commitments) /\ IsSome(block.transactions)
    /\ verify_kzg_commitments_against_transactions(
           Unwrap(block.transactions), Unwrap(block.blob_kzg_commitments))
    /\ IsSome(kzg)
    /\ validate_blobs_sidecar(block.slot, block_root,
                              Unwrap(block.blob_kzg_commitments), bundle) = Ok(TRUE)

CertPaths == CertOps \cup {"validate_blob_for_gossip"}
HasBlobsVia(ops) == op \in ops /\ IsOk(ret) /\ IsSome(blobs(Certified))

\* C1 (as claimed): whenever blobs() of an AvailableBlock built by
\* into_available_block or AvailableBlock::new returns a bundle, that bundle has
\* passed the availability verifier for that block.
C1_AsClaimed ==
    HasBlobsVia(CertOps) => PassedVerifier(Unwrap(blobs(Certified)), CalledBlock, arg.block_root)

\* C1 (amended): a bundle returned by blobs() is either the bundle supplied with
\* the block, which then passed the availability verifier for that block, or,
\* when no sidecars were supplied, the reconstructed empty bundle, which never
\* went through the verifier.
C1_VerifiedOrReconstructed ==
    HasBlobsVia(CertPaths) =>
        LET bundle == Unwrap(blobs(Certified))
        IN IF SidecarsSupplied
           THEN /\ bundle = Unwrap(arg.wrapper.blobs_sidecar)
                /\ PassedVerifier(bundle, CalledBlock, arg.block_root)
                /\ IsAvailable(bundle, CalledBlock, arg.block_root)
           ELSE /\ bundle.blobs = <<>>
                /\ bundle.beacon_block_root = arg.block_root
                /\ bundle.beacon_block_slot = CalledBlock.slot
                /\ vlog = <<>>

C1_Witness ==
    /\ HasBlobsVia(CertOps) /\ SidecarsSupplied
    /\ Len(Unwrap(blobs(Certified)).blobs) = 2

\* C2 (as claimed): for a block of a pre-Eip4844 fork into_available_block never
\* returns an error and never runs the verifier, for either wrapper shape.
C2_AsClaimed ==
    (op = "into_available_block" /\ CalledBlock.fork \in PreEip4844Forks)
        => IsOk(ret) /\ vlog = <<>>

\* C2 (amended): for a block of a pre-Eip4844 fork into_available_block never
\* runs the verifier; it succeeds whenever the wrapper is Block, whatever the
\* DA boundary, and fails whenever the wrapper is BlockAndBlob.
C2_PreForkCertification ==
    (op = "into_available_block" /\ CalledBlock.fork \in PreEip4844Forks)
        => /\ vlog = <<>>
           /\ IsOk(ret) <=> ~SidecarsSupplied
           /\ IsOk(ret) => (Certified.tag = "Block" /\ Certified.beacon_block = CalledBlock)

C2_Witness ==
    /\ op = "into_available_block" /\ CalledBlock.fork = "Capella"
    /\ ~SidecarsSupplied /\ Required /\ IsOk(ret)

C4_UnverifiedBlobsDiscarded ==
    (op = "into_available_block" /\ SidecarsSupplied
        /\ CalledBlock.fork = "Eip4844" /\ ~Required)
        => /\ IsOk(ret)
           /\ Certified.tag = "Block"
           /\ blobs(Certified) = None
           /\ deconstruct(Certified) = <<CalledBlock, None>>
           /\ vlog = <<>>

C4_Witness ==
    /\ op = "into_available_block" /\ SidecarsSupplied
    /\ CalledBlock.fork = "Eip4844" /\ ~Required
    /\ IsSome(data_availability_boundary)
    /\ Unwrap(arg.wrapper.blobs_sidecar).kzg_aggregated_proof = "bad"
    /\ IsOk(ret)

\* C5: the DA check is applied to a block iff a boundary is configured and the
\* block's epoch is at or after it.  Seen on Eip4844 blocks with sidecars and
\* transactions: the verifier is run exactly in that case.
C5_RequiredIffAtOrAfterBoundary ==
    (/\ op = "into_available_block" /\ SidecarsSupplied
     /\ CalledBlock.fork = "Eip4844" /\ IsSome(CalledBlock.transactions))
        => (Len(vlog) = 1
              <=> /\ data_availability_boundary # None
                  /\ CalledBlock.slot \div SlotsPerEpoch >= data_availability_boundary[1])

C5_Witness ==
    /\ op = "into_available_block" /\ SidecarsSupplied /\ CalledBlock.fork = "Eip4844"
    /\ data_availability_boundary = Some(CalledBlock.slot \div SlotsPerEpoch)
    /\ data_availability_boundary # Some(0)
    /\ Len(vlog) = 1

\* C6: with no sidecars supplied, a pre-Eip4844 block certifies as Block; an
\* Eip4844 block certifies as Block when the DA check is not required, and when
\* it is required either as BlockAndBlob with the reconstructed empty bundle or
\* fails with UnavailableBlobs / InconsistentFork.
C6_RuleA ==
    (op \in CertOps /\ ~SidecarsSupplied) =>
        IF CalledBlock.fork \in PreEip4844Forks \/ ~Required
        THEN /\ IsOk(ret)
             /\ Certified = [tag |-> "Block", beacon_block |-> CalledBlock,
                             blobs_sidecar |-> None]
        ELSE \/ /\ IsOk(ret)
                /\ Certified.tag = "BlockAndBlob"
                /\ Certified.beacon_block = CalledBlock
                /\ Certified.blobs_sidecar
                     = Some([beacon_block_root |-> arg.block_root,
                             beacon_block_slot |-> CalledBlock.slot,
                             blobs |-> <<>>, kzg_aggregated_proof |-> "good"])
                /\ arg.outcome = "Ok"
             \/ /\ IsErr(ret)
                /\ ErrKind(ret) \in {"UnavailableBlobs", "InconsistentFork"}
                /\ ErrKind(ret) = arg.outcome

C6_Witness ==
    /\ op = "AvailableBlock::new" /\ CalledBlock.fork = "Eip4844" /\ Required
    /\ IsOk(ret) /\ Certified.tag = "BlockAndBlob"

\* What the three availability checks, taken in order, say of a verifier call.
VerifierVerdict(call, block) ==
    LET matches == verify_kzg_commitments_against_transactions(
                       Unwrap(block.transactions), call.kzg_commitments)
        valid == validate_blobs_sidecar(call.block_slot, call.block_root,
                                        call.kzg_commitments, call.blob_sidecar)
    IN IF ~matches THEN "TransactionCommitmentMismatch"
       ELSE IF kzg = None THEN "TrustedSetupNotInitialized"
       ELSE IF IsErr(valid) THEN "KzgError"
       ELSE IF valid = Ok(FALSE) THEN "InvalidKzgProof"
       ELSE "Ok"

\* C8: the availability verifier checks, in this order and stopping at the first
\* failure: commitments against transactions (TransactionCommitmentMismatch),
\* the trusted setup (TrustedSetupNotInitialized), the proofs (KzgError for an
\* error of the verifier, InvalidKzgProof for a false result); it succeeds only
\* when all three pass.
C8_VerifierOrder ==
    \A i \in 1..Len(vlog) :
        ErrKind(vlog[i].result) = VerifierVerdict(vlog[i], arg.wrapper.block)

C8_Witness ==
    /\ Len(vlog) = 1
    /\ kzg = None
    /\ vlog[1].blob_sidecar.kzg_aggregated_proof = "bad"
    /\ vlog[1].kzg_commitments # <<>>
    /\ ErrKind(vlog[1].result) = "TransactionCommitmentMismatch"

GossipCall == op = "validate_blob_sidecar_for_gossip"

\* The six checks, as facts about the sidecar and the chain.
LocalProposer ==
    IF arg.cache_entry # None THEN arg.cache_entry
    ELSE arg.state_proposer
SubnetOk == arg.blob_sidecar.index = arg.subnet
NotFuture == slot_clock # None /\ arg.blob_sidecar.slot <= slot_clock[1]
AfterFinalized == arg.blob_sidecar.slot > finalized_epoch * SlotsPerEpoch
ProposerOk == LocalProposer = Some(arg.blob_sidecar.proposer_index)
SignatureOk == Some(arg.blob_sidecar.signer) = LocalProposer
BlockKnown ==
    \/ arg.blob_sidecar.block_root \in fork_choice
    \/ early_attester_cache = Some(arg.blob_sidecar.block_root)

\* The lookups the checks need all answered: the clock gave a slot, a proposer
\* was resolved, the public-key cache was read and holds the proposer's key.
LookupsAnswered ==
    /\ slot_clock # None
    /\ LocalProposer # None
    /\ arg.pubkey_lock
    /\ LocalProposer[1] < validator_pubkey_cache

FirstFailure ==
    IF ~SubnetOk THEN "InvalidSubnet"
    ELSE IF ~NotFuture THEN "FutureSlot"
    ELSE IF ~AfterFinalized THEN "PastFinalizedSlot"
    ELSE IF ~ProposerOk THEN "ProposerIndexMismatch"
    ELSE IF ~SignatureOk THEN "ProposerSignatureInvalid"
    ELSE IF ~BlockKnown THEN "UnknownHeadBlock"
    ELSE "Ok"

IdentityErrors == {"InvalidSubnet", "ProposerIndexMismatch", "ProposerSignatureInvalid"}

\* C7: the sidecar validator checks subnet, future slot, finalized slot,
\* proposer index, proposer signature, known block in that order and returns
\* the error of the first check that fails; a sidecar that fails an identity
\* check and references an unknown block gets the identity error, and
\* UnknownHeadBlock is returned only when the five earlier checks passed.
C7_GossipCheckOrder ==
    GossipCall =>
        /\ LookupsAnswered => ErrKind(ret) = FirstFailure
        /\ ~SubnetOk => ErrKind(ret) = "InvalidSubnet"
        /\ ErrKind(ret) \in IdentityErrors => ErrKind(ret) = FirstFailure
        /\ ErrKind(ret) = "UnknownHeadBlock"
             => /\ SubnetOk /\ NotFuture /\ AfterFinalized /\ ProposerOk /\ SignatureOk
                /\ ~BlockKnown
        /\ IsOk(ret) => FirstFailure = "Ok"

C7_Witness ==
    /\ GossipCall /\ LookupsAnswered
    /\ SubnetOk /\ NotFuture /\ AfterFinalized /\ ProposerOk
    /\ ~SignatureOk /\ ~BlockKnown
    /\ ErrKind(ret) = "ProposerSignatureInvalid"

KzgErrors == {"TrustedSetupNotInitialized", "InvalidKzgProof", "KzgError",
              "TransactionCommitmentMismatch"}

\* C10: the sidecar validator makes no KZG check: it never returns
\* TrustedSetupNotInitialized, InvalidKzgProof, KzgError or
\* TransactionCommitmentMismatch, and accepts a sidecar that passes the six
\* checks even when its KZG proof is invalid.
C10_NoKzgAtGossip ==
    GossipCall =>
        /\ ErrKind(ret) \notin KzgErrors
        /\ (LookupsAnswered /\ FirstFailure = "Ok" /\ ~arg.blob_sidecar.kzg_proof_valid)
              => ret = Ok(Unit)

C10_Witness ==
    /\ GossipCall
    /\ ~arg.blob_sidecar.kzg_proof_valid
    /\ kzg = None
    /\ ret = Ok(Unit)

\* ---------------------------------------------------------------- C11
\* The validating call is waiting for one of the two cache locks.
GossipWaiting == gossip_pc \in {"beacon_proposer_cache", "validator_pubkey_cache"}

LockTimeoutError == Err(BlobError("BeaconChainError", "ValidatorPubkeyCacheLockTimeout", 0, 0))

\* C11: both cache locks are taken with a bounded wait.  A validating call
\* that waits for either lock can always go on by itself, whatever the task
\* holding the lock does, and a call that found the public-key cache held
\* returned the lock-timeout error.
C11_AsClaimed ==
    /\ GossipWaiting => ENABLED GossipStep
    /\ (gossip_pc = "returned" /\ ~arg.pubkey_lock) => ret = LockTimeoutError

\* The proposer cache is held by another task while the call waits for it.
C11_BlockedOnProposerCache ==
    /\ gossip_pc = "beacon_proposer_cache"
    /\ beacon_proposer_cache_lock = "other"
    /\ ~ENABLED GossipStep

\* The public-key cache half of the claim alone: waiting there is bounded.
C11_PubkeyCacheWaitBounded ==
    /\ gossip_pc = "validator_pubkey_cache" => ENABLED GossipTryReadPubkeyCache
    /\ (gossip_pc = "returned" /\ ~arg.pubkey_lock) => ret = LockTimeoutError

\* ---------------------------------------------------------------- sidecar cache claims
CacheOp(name) == op = name
ArgKey == BlobCacheId(arg.block_root, arg.blob_index)
PrevKey == BlobCacheId(prev_call.arg.block_root, prev_call.arg.blob_index)
WasCached(k) == k \in CacheKeys(cache_pre)
WasFull == Len(cache_pre.entries) = 10 * MaxBlobsPerBlock
PutOfNewKeyWhenFull == CacheOp("put") /\ WasFull /\ ~WasCached(ArgKey)

\* The entries other than the one at key k, in their order of use.
Others(c, k) ==
    LET NotK(e) == e.key # k
    IN SelectSeq(c.entries, NotK)

\* The key, among those the call found, whose last put is the longest ago.
LeastRecentlyPut ==
    CHOOSE k \in CacheKeys(cache_pre) :
        \A j \in CacheKeys(cache_pre) : last_put[k] <= last_put[j]

\* C12: on a default-constructed cache the number of entries never exceeds
\* 10 x max_blobs_per_block, and the capacity stays what it was.
C12_BoundedAndFixedCapacity ==
    /\ Len(blobs_cache.entries) <= 10 * MaxBlobsPerBlock
    /\ blobs_cache.cap = 10 * MaxBlobsPerBlock
    /\ blobs_cache.cap = cache_pre.cap

C12_Witness ==
    /\ PutOfNewKeyWhenFull
    /\ prev_call.op \in {"pop", "peek"}
    /\ Len(blobs_cache.entries) = 10 * MaxBlobsPerBlock

\* C13: a put of a key that is not cached, into a full cache, removes exactly
\* the entry whose last put is the longest ago, keeps every other entry, and a
\* pop of the evicted key then returns nothing.
C13_EvictsLeastRecentlyUsed ==
    PutOfNewKeyWhenFull =>
        /\ CacheKeys(blobs_cache) = (CacheKeys(cache_pre) \ {LeastRecentlyPut}) \cup {ArgKey}
        /\ \A k \in CacheKeys(cache_pre) \ {LeastRecentlyPut} :
               CacheLookup(blobs_cache, k) = CacheLookup(cache_pre, k)
        /\ pop(blobs_cache, LeastRecentlyPut[1], LeastRecentlyPut[2]).ret = None

\* The evicted entry is not the first one filled in: an overwrite had renewed it.
C13_Witness ==
    /\ PutOfNewKeyWhenFull
    /\ LeastRecentlyPut # FillKey(1)
    /\ FillKey(1) \in CacheKeys(blobs_cache)

\* C14: put returns the previous sidecar exactly when the key was cached, and
\* then no other entry goes; for a new key it returns nothing, eviction or not.
C14_PutReturnsPrevious ==
    CacheOp("put") =>
        /\ IsSome(ret) <=> WasCached(ArgKey)
        /\ WasCached(ArgKey) =>
               /\ ret = CacheLookup(cache_pre, ArgKey)
               /\ CacheKeys(blobs_cache) = CacheKeys(cache_pre)
        /\ ~WasCached(ArgKey) => ret = None
        /\ CacheLookup(blobs_cache, ArgKey) = Some(arg.blob)

C14_Witness ==
    /\ PutOfNewKeyWhenFull
    /\ ret = None
    /\ CacheKeys(cache_pre) \ CacheKeys(blobs_cache) # {}
    /\ prev_call.op = "put" /\ IsSome(prev_call.ret)

\* C15: a pop right after a put of the same key returns the sidecar put and
\* leaves every other entry as it was; a second pop of the key returns nothing.
C15_PutThenPop ==
    /\ (CacheOp("pop") /\ prev_call.op = "put" /\ PrevKey = ArgKey) =>
           /\ ret = Some(prev_call.arg.blob)
           /\ blobs_cache.entries = Others(cache_pre, ArgKey)
           /\ Len(blobs_cache.entries) = Len(cache_pre.entries) - 1
    /\ (CacheOp("pop") /\ prev_call.op = "pop" /\ PrevKey = ArgKey) =>
           /\ ret = None
           /\ blobs_cache = cache_pre

C15_Witness ==
    /\ CacheOp("pop") /\ prev_call.op = "pop" /\ PrevKey = ArgKey
    /\ IsSome(prev_call.ret)
    /\ Len(blobs_cache.entries) >= 1

\* C16: peek returns the entry at the key, or nothing, and leaves the cache
\* as it is, order of use included: an oldest entry that was peeked is still
\* the one a put of a new key into the full cache evicts.
C16_PeekIsNonMutating ==
    /\ CacheOp("peek") =>
           /\ ret = CacheLookup(cache_pre, ArgKey)
           /\ blobs_cache = cache_pre
    /\ (PutOfNewKeyWhenFull /\ prev_call.op = "peek" /\ PrevKey = cache_pre.entries[1].key) =>
           PrevKey \notin CacheKeys(blobs_cache)

C16_Witness ==
    /\ PutOfNewKeyWhenFull /\ prev_call.op = "peek"
    /\ PrevKey = cache_pre.entries[1].key
    /\ IsSome(prev_call.ret)

\* ---------------------------------------------------------------- C17
AllDone == \A t \in Tasks : tasks[t].pc = "done"
Orders == {o \in [1..NumTasks -> Tasks] : \A i, j \in 1..NumTasks : o[i] = o[j] => i = j}

\* Running the calls one after another in the given order, from the cache c,
\* gives every task the result it got and ends in the cache as it is now.
RECURSIVE RunsAs(_, _, _)
RunsAs(c, o, i) ==
    IF i > NumTasks
    THEN c = blobs_cache
    ELSE LET out == Apply(c, tasks[o[i]])
         IN /\ tasks[o[i]].ret = <<out.ret>>
            /\ RunsAs(out.cache, o, i + 1)

PopsOf(k) == {t \in Tasks : tasks[t].pc = "done" /\ tasks[t].op = "pop" /\ tasks[t].key = k}
PutsOf(k) == {t \in Tasks : tasks[t].op = "put" /\ tasks[t].key = k}
Served(T) == {t \in T : tasks[t].ret # <<None>>}

\* C17: concurrent put, pop and peek take effect atomically under the one
\* mutex: the results and the final cache are those of the calls run in some
\* sequential order, and a sidecar that was put once is handed out by at most
\* one of the concurrent pops of its key.
C17_AtomicUnderMutex ==
    /\ AllDone => \E o \in Orders : RunsAs(cache_pre, o, 1)
    /\ \A k \in TaskKeys : PutsOf(k) = {} => Cardinality(Served(PopsOf(k))) <= 1

\* Two tasks popped the key of a cached sidecar; one got it, the other nothing.
C17_Witness ==
    /\ AllDone
    /\ \E k \in TaskKeys :
          /\ Cardinality(PopsOf(k)) >= 2
          /\ PutsOf(k) = {}
          /\ Cardinality(Served(PopsOf(k))) = 1

\* ---------------------------------------------------------------- fetch pipeline claims
FetchCalled == op = "fetch_blobs_and_publish"
EventsOf(name) ==
    LET Is(e) == e.ev = name
    IN SelectSeq(fetch_log, Is)
EngineCalls == EventsOf("get_blobs")
Published == EventsOf("publish")
Persisted == EventsOf("process_engine_blobs")
Spawned == EventsOf("spawn")
Sent == EventsOf("try_send")

NumDeclared == Len(versioned_hashes_of(arg.commitments))
EngineAnswered == FetchCalled /\ arg.response.ok
Response == Unwrap(arg.response.val)
NumReturned == num_fetched_blobs_of(Response)

\* The call has returned and no task of it is still running.
FetchQuiescent == fetch_pc = "returned" /\ build_pc \in {"none", "finished"}
NoOutput == Published = <<>> /\ Persisted = <<>> /\ Spawned = <<>> /\ build_pc = "none"

\* C18: with no declared commitment the engine is never called, and with an
\* answer holding no blob, as with no commitment, nothing is published, nothing
\* persisted, no task spawned, and the call returns success.
C18_NothingToDo ==
    /\ (FetchCalled /\ NumDeclared = 0) =>
           /\ EngineCalls = <<>>
           /\ NoOutput
           /\ fetch_pc = "returned" /\ ret = Ok(Unit)
    /\ (EngineAnswered /\ NumReturned = 0) =>
           /\ NoOutput
           /\ fetch_pc = "returned" /\ ret = Ok(Unit)

C18_Witness ==
    /\ EngineAnswered
    /\ NumDeclared = MaxBlobsPerBlock
    /\ NumReturned = 0
    /\ Len(EngineCalls) = 1

\* C19 as stated: a successful call in which the engine returned a blob has
\* invoked the publish callback exactly once, and never with both kinds.
C19_AsClaimed ==
    /\ (EngineAnswered /\ NumReturned >= 1 /\ FetchQuiescent /\ IsOk(ret)) => Len(Published) = 1
    /\ \A i, j \in 1..Len(Published) : Published[i].kind = Published[j].kind

\* C19: the publish callback is invoked at most once, so never with both
\* kinds.  A successful call in which the engine returned a blob has invoked
\* it exactly once, with the plain sidecars, if no column build was spawned; if
\* one was, the task has invoked it once, with the data columns, when the node
\* is a supernode and the build succeeded, and nobody has invoked it otherwise.
C19_PublishAtMostOnce ==
    /\ Len(Published) <= 1
    /\ (EngineAnswered /\ NumReturned >= 1 /\ FetchQuiescent /\ IsOk(ret)) =>
           IF Spawned = <<>>
           THEN Len(Published) = 1 /\ Published[1].kind = "Blobs"
           ELSE IF arg.is_supernode /\ Sent # <<>>
           THEN Len(Published) = 1 /\ Published[1].kind = "DataColumns"
           ELSE Published = <<>>

C19_Witness ==
    /\ EngineAnswered /\ NumReturned >= 1 /\ FetchQuiescent /\ IsOk(ret)
    /\ Spawned # <<>>
    /\ Len(Published) = 1

\* The positions at which the engine returned a blob, and the sidecars of them.
ReturnedAt == {j \in 1..Len(Response) : Response[j] # "none"}
PartialFetch == EngineAnswered /\ 0 < NumReturned /\ NumReturned < NumDeclared
Committed == Persisted # <<>>
PopulatedSlots(list) == {j \in 1..Len(list) : IsSome(list[j])}

\* C20 as stated: k of n blobs returned: no task, the k sidecars published as
\* plain blobs, and a list of k populated slots, at the returned positions, and
\* n - k empty ones handed to persistence.
C20_AsClaimed ==
    PartialFetch =>
        /\ Spawned = <<>> /\ build_pc = "none"
        /\ Committed =>
               /\ Len(Published) = 1
               /\ Published[1].kind = "Blobs"
               /\ Len(Published[1].items) = NumReturned
               /\ {Published[1].items[i].index + 1 : i \in 1..NumReturned} = ReturnedAt
               /\ PopulatedSlots(Persisted[1].items) = ReturnedAt
               /\ Len(Persisted[1].items) - NumReturned = NumDeclared - NumReturned

\* The returned positions whose sidecar was built and fits the list.
BuiltAt == {j \in ReturnedAt : Response[j] = "ok" /\ j <= MaxBlobsPerBlock}

\* C20: k of n blobs returned, 0 < k < n: no task is spawned; once the call
\* reaches commit, the sidecars that could be built from the returned blobs,
\* and only they, were published once as plain blobs, and persistence is handed
\* the list of max_blobs_per_block slots in which exactly their positions are
\* populated, each with the sidecar of its index.
C20_PartialFetch ==
    PartialFetch =>
        /\ Spawned = <<>> /\ build_pc = "none"
        /\ Committed =>
               /\ Len(Published) = 1
               /\ Published[1].kind = "Blobs"
               /\ Len(Published[1].items) = Cardinality(BuiltAt)
               /\ {Published[1].items[i].index + 1 : i \in 1..Len(Published[1].items)} = BuiltAt
               /\ Len(Persisted) = 1
               /\ Len(Persisted[1].items) = MaxBlobsPerBlock
               /\ PopulatedSlots(Persisted[1].items) = BuiltAt
               /\ \A j \in BuiltAt : Persisted[1].items[j] = Some([index |-> j - 1])

\* One of two declared blobs came back, at the second position.
C20_Witness ==
    /\ PartialFetch /\ Committed
    /\ arg.peer_das_enabled
    /\ NumDeclared = 2 /\ ReturnedAt = {2} /\ BuiltAt = {2}
    /\ PopulatedSlots(Persisted[1].items) = {2}

\* Redundancy coding enabled, a supernode, and every declared blob returned.
FullFetchSupernode ==
    /\ EngineAnswered
    /\ arg.peer_das_enabled /\ arg.is_supernode
    /\ NumDeclared > 0
    /\ Len(Response) = NumDeclared /\ ReturnedAt = 1..NumDeclared

\* C21 as stated: all n blobs returned on a supernode with redundancy coding:
\* once the call and its task are over, the columns were sent exactly once,
\* published exactly once and never the plain blobs, and persistence was handed
\* a list of n populated slots and no empty one.
C21_AsClaimed ==
    (FullFetchSupernode /\ FetchQuiescent) =>
        /\ Len(Sent) = 1
        /\ Len(Published) = 1 /\ Published[1].kind = "DataColumns"
        /\ Len(Persisted) = 1
        /\ Len(Persisted[1].items) = NumDeclared
        /\ PopulatedSlots(Persisted[1].items) = 1..NumDeclared

\* C21: all n blobs returned on a supernode with redundancy coding: the plain
\* blobs are never published; the columns are sent at most once and published
\* at most once, after the send; a call that reaches commit has spawned the
\* build exactly once and handed persistence, with the receiver, the list of
\* max_blobs_per_block slots populated exactly where a sidecar could be built;
\* and once the call and its task are over the columns of those sidecars were
\* published exactly if they were sent, that is exactly if the build succeeded.
C21_FullFetchSupernode ==
    FullFetchSupernode =>
        /\ \A i \in 1..Len(Published) : Published[i].kind = "DataColumns"
        /\ Len(Published) <= 1 /\ Len(Sent) <= 1 /\ Len(Spawned) <= 1
        /\ Len(Published) <= Len(Sent) /\ Len(Sent) <= Len(Spawned)
        /\ Committed =>
               /\ Len(Spawned) = 1
               /\ Len(Persisted) = 1
               /\ Persisted[1].receiver
               /\ Len(Persisted[1].items) = MaxBlobsPerBlock
               /\ PopulatedSlots(Persisted[1].items) = BuiltAt
               /\ \A i \in 1..Len(Sent) : Sent[i].items = build_sidecars(populated(Persisted[1].items))
               /\ \A i \in 1..Len(Published) : Published[i].items = build_sidecars(populated(Persisted[1].items))
        /\ FetchQuiescent => Len(Published) = Len(Sent)
        /\ (FetchQuiescent /\ IsOk(ret)) => Committed

\* Two of two blobs, columns sent and published, one slot of the list empty.
C21_Witness ==
    /\ FullFetchSupernode /\ FetchQuiescent /\ IsOk(ret)
    /\ NumDeclared = 2 /\ BuiltAt = {1, 2}
    /\ Len(Sent) = 1 /\ Sent[1].kind = "Ok"
    /\ Len(Published) = 1
    /\ Len(Persisted[1].items) = MaxBlobsPerBlock

FetchFailed == FetchCalled /\ fetch_pc = "returned" /\ IsErr(ret)

\* C22 as stated: the call returns an error only for a failed engine request
\* or a failed spawn.
C22_AsClaimed ==
    FetchFailed => ret \in {Err("RequestFailed"), Err("RuntimeShutdown")}

\* C22: the call returns an error only when the execution layer is missing,
\* the engine request fails as a whole, the header and inclusion proof of the
\* block cannot be produced, the spawn of the column build fails, or
\* process_engine_blobs fails; an answer with some of the blobs reaches commit
\* unless the header proof fails, and fails only as persistence does.
C22_ErrorSources ==
    /\ FetchFailed =>
           \/ ret = Err("ExecutionLayerMissing") /\ ~arg.execution_layer /\ EngineCalls = <<>>
           \/ ret = Err("RequestFailed") /\ ~arg.response.ok /\ NoOutput
           \/ ret = Err("BeaconChainError") /\ EngineAnswered /\ NumReturned > 0 /\ NoOutput
           \/ /\ ret = Err("RuntimeShutdown")
              /\ EngineAnswered /\ arg.peer_das_enabled /\ ~(NumReturned < NumDeclared)
              /\ NoOutput
           \/ ret = Err("BlockError") /\ EngineAnswered /\ Committed
    /\ (PartialFetch /\ FetchFailed) =>
           \/ ret = Err("BeaconChainError") /\ ~Committed
           \/ ret = Err("BlockError") /\ Committed

\* A partial answer is published and the error of persistence is returned.
C22_Witness ==
    /\ FetchFailed
    /\ PartialFetch
    /\ ret = Err("BlockError")
    /\ Len(Published) = 1

\* C23: a call that has spawned the column build and stands before
\* process_engine_blobs can always take that step, whatever the task has or
\* has not done and whatever the channel holds: the call never waits for them.
C23_CommitNeverAwaitsBuild ==
    (fetch_pc = "commit" /\ Spawned # <<>>) => ENABLED FetchCommit

\* Persistence has been handed the block while the build has not even begun.
C23_Witness ==
    /\ Len(Spawned) = 1
    /\ Len(Persisted) = 1
    /\ build_pc = "spawned"
    /\ Sent = <<>>
    /\ data_columns_channel.buffer = <<>>

\* The answers to a request for n blobs that hold them all.
FullResponses(n) == {r \in EngineResponses(n) : ~(num_fetched_blobs_of(r) < n)}

\* C24: a call whose spawn of the column build fails returns RuntimeShutdown
\* with no task, nothing published and no sidecar list on its way; and a call
\* that returned RuntimeShutdown has, then and ever after, run no build, sent
\* nothing on the channel, published nothing and not called persistence.
C24_SpawnFailureLeavesNothing ==
    /\ \A n \in 1..MaxBlobsPerBlock : \A r \in FullResponses(n) :
          LET out == fetch_on_response(n, r, TRUE, TRUE, Some("trusted_setup"), FALSE)
          IN /\ out.pc = "returned" /\ out.ret = Err("RuntimeShutdown")
             /\ out.events = <<>> /\ out.build_pc = "none"
    /\ (FetchCalled /\ ret = Err("RuntimeShutdown")) =>
           /\ fetch_pc = "returned"
           /\ build_pc = "none" /\ build_blobs = <<>>
           /\ Spawned = <<>> /\ Sent = <<>> /\ Published = <<>> /\ Persisted = <<>>
           /\ data_columns_channel.buffer = <<>>
           /\ data_columns_channel.sender = "dropped"
           /\ ~ENABLED (BuildColumns \/ BuildSend \/ BuildPublish \/ FetchCommit)

\* The spawn failed on a supernode that had fetched both blobs of the block.
C24_Witness ==
    /\ FetchCalled /\ ret = Err("RuntimeShutdown")
    /\ arg.is_supernode /\ arg.peer_das_enabled
    /\ NumDeclared = 2 /\ NumReturned = 2
    /\ Len(EngineCalls) = 1

\* C25: persistence is handed a receiver of data columns exactly by the calls
\* that spawned a column build: a call on the partial-fetch path or with
\* redundancy coding disabled hands over the sidecar list with no receiver.
C25_AsClaimed ==
    Committed =>
        /\ Persisted[1].receiver <=> Spawned # <<>>
        /\ (PartialFetch \/ ~arg.peer_das_enabled) => ~Persisted[1].receiver

\* A partial answer: nothing was spawned, the sender stays in the hands of the
\* call, and persistence holds the receiver of a channel nobody will send on.
C25_ReceiverWithoutBuild ==
    /\ Committed
    /\ PartialFetch
    /\ Spawned = <<>> /\ build_pc = "none"
    /\ Persisted[1].receiver
    /\ data_columns_channel.receiver = "persistence"
    /\ data_columns_channel.sender = "fetch"

\* ---------------------------------------------------------------- sidecar claims
\* The sidecars a call of build_sidecar, empty or from_ssz_bytes has produced.
SidecarOps == {"BlobSidecar::build_sidecar", "BlobSidecar::empty", "BlobSidecar::from_ssz_bytes"}
SidecarsMade ==
    IF op \in SidecarOps /\ IsOk(ret)
    THEN {Unwrap(ret.val)[i] : i \in 1..Len(Unwrap(ret.val))}
    ELSE {}

\* The root is the hash of a block with the sidecar's slot, parent and proposer.
RootAgrees(sidecar) ==
    \E b \in SidecarBlocks :
        /\ BlobSidecar_id(sidecar).block_root = canonical_root(b)
        /\ b.slot = sidecar.slot
        /\ b.parent_root = sidecar.block_parent_root
        /\ b.proposer_index = sidecar.proposer_index

\* C26: the block root of a sidecar's id is the hash of the sidecar's block
\* header: no sidecar exists whose root disagrees with its slot, parent root
\* and proposer index.
C26_AsClaimed ==
    \A sidecar \in SidecarsMade : RootAgrees(sidecar)

\* A decoded sidecar whose stored root is that of a block of another slot.
C26_StoredRootDisagrees ==
    /\ op = "BlobSidecar::from_ssz_bytes"
    /\ \E sidecar \in SidecarsMade : \E b \in SidecarBlocks :
          /\ BlobSidecar_id(sidecar).block_root = canonical_root(b)
          /\ b.slot # sidecar.slot
          /\ ~RootAgrees(sidecar)

CmpCalled == op = "BlobIdentifier::cmp"
Cmp == Unwrap(ret.val)
AtMost(ordering) == ordering \in {"Less", "Equal"}

\* C27 as stated: the comparison of two identifiers depends on their indices
\* alone, and the order is reflexive, transitive, total, and antisymmetric:
\* identifiers each at most the other are equal identifiers.
C27_AsClaimed ==
    CmpCalled =>
        /\ Cmp.ab = u64_cmp(arg.a.index, arg.b.index)
        /\ Cmp.aa = "Equal"
        /\ (AtMost(Cmp.ab) /\ AtMost(Cmp.bc)) => AtMost(Cmp.ac)
        /\ AtMost(Cmp.ab) \/ AtMost(Cmp.ba)
        /\ (AtMost(Cmp.ab) /\ AtMost(Cmp.ba)) => Cmp.eq_ab

\* C27: the comparison of two identifiers depends on their indices alone, in
\* cmp and in partial_cmp, and the order is reflexive, transitive and total;
\* two identifiers are each at most the other, and compare Equal, exactly when
\* their indices are equal, so equal identifiers compare Equal but identifiers
\* of different blocks with one index compare Equal too.
C27_TotalPreorderByIndex ==
    CmpCalled =>
        /\ Cmp.ab = u64_cmp(arg.a.index, arg.b.index)
        /\ Cmp.partial_ab = Some(Cmp.ab)
        /\ Cmp.aa = "Equal"
        /\ (AtMost(Cmp.ab) /\ AtMost(Cmp.bc)) => AtMost(Cmp.ac)
        /\ AtMost(Cmp.ab) \/ AtMost(Cmp.ba)
        /\ (AtMost(Cmp.ab) /\ AtMost(Cmp.ba)) <=> arg.a.index = arg.b.index
        /\ Cmp.ab = "Equal" <=> arg.a.index = arg.b.index
        /\ Cmp.eq_ab => Cmp.ab = "Equal"
        /\ Cmp.eq_ab <=> (arg.a.index = arg.b.index /\ arg.a.block_root = arg.b.block_root)

\* Two identifiers of different blocks with one index compare Equal.
C27_Witness ==
    /\ CmpCalled
    /\ arg.a.index = arg.b.index
    /\ arg.a.block_root # arg.b.block_root
    /\ Cmp.ab = "Equal" /\ Cmp.ba = "Equal"
    /\ ~Cmp.eq_ab
    /\ Cmp.bc = "Less" /\ Cmp.ac = "Less"

\* ---------------------------------------------------------------- certification claims, continued
\* into_available_block was called on a BlockAndBlob wrapper with the DA check required.
CertifyWithCheck == op = "into_available_block" /\ SidecarsSupplied /\ Required

\* C28: into_available_block on a BlockAndBlob wrapper with the DA check
\* required runs the verifier at most once and before it constructs anything:
\* a success had the verifier succeed, on this block, slot, root and on the
\* bundle of the wrapper, and certifies exactly that bundle with that block;
\* an error of the verifier is returned as it is; a success of the verifier is
\* followed by the construction.
C28_VerifyThenConstruct ==
    CertifyWithCheck =>
        /\ Len(vlog) <= 1
        /\ IsOk(ret) =>
               /\ Len(vlog) = 1
               /\ IsOk(vlog[1].result)
               /\ vlog[1].blob_sidecar = Unwrap(arg.wrapper.blobs_sidecar)
               /\ vlog[1].kzg_commitments = Unwrap(CalledBlock.blob_kzg_commitments)
               /\ vlog[1].block_slot = CalledBlock.slot
               /\ vlog[1].block_root = arg.block_root
               /\ Certified.tag = "BlockAndBlob"
               /\ Certified.beacon_block = CalledBlock
               /\ blobs(Certified) = Some(vlog[1].blob_sidecar)
        /\ (vlog # <<>> /\ IsErr(vlog[1].result)) => ret = vlog[1].result
        /\ (vlog # <<>> /\ IsOk(vlog[1].result)) => IsOk(ret)

\* The verifier refused a bundle of two blobs and its error came back.
C28_Witness ==
    /\ CertifyWithCheck
    /\ Len(vlog) = 1
    /\ ErrKind(vlog[1].result) = "InvalidKzgProof"
    /\ ret = vlog[1].result
    /\ Len(Unwrap(arg.wrapper.blobs_sidecar).blobs) = 2

\* C29: with the DA check required for a BlockAndBlob wrapper, a block without
\* a commitment list fails with KzgCommitmentMissing, whatever its payload; a
\* block with the list but without transactions of an Eip4844 payload fails
\* with TransactionsMissing; the verifier is run in neither case, and the two
\* errors have no other cause.
C29_MissingParts ==
    CertifyWithCheck =>
        LET no_commitments == ~IsSome(CalledBlock.blob_kzg_commitments)
            no_transactions == CalledBlock.fork # "Eip4844" \/ ~IsSome(CalledBlock.transactions)
        IN /\ no_commitments <=> ErrKind(ret) = "KzgCommitmentMissing"
           /\ (~no_commitments /\ no_transactions) <=> ErrKind(ret) = "TransactionsMissing"
           /\ (no_commitments \/ no_transactions) => vlog = <<>>

\* Two commitments declared, no transactions in the payload.
C29_Witness ==
    /\ CertifyWithCheck
    /\ CalledBlock.blob_kzg_commitments = Some(<<11, 12>>)
    /\ ~IsSome(CalledBlock.transactions)
    /\ ErrKind(ret) = "TransactionsMissing"
    /\ vlog = <<>>

\* ---------------------------------------------------------------- gossip timing
TimingErrors == {"FutureSlot", "PastFinalizedSlot"}
UnableToReadSlot == Err(BlobError("BeaconChainError", "UnableToReadSlot", 0, 0))

\* C30: a sidecar received on its subnet passes the timing checks iff its slot
\* is after the start slot of the finalized epoch and at most the slot the
\* clock gives with the gossip disparity: beyond it the call returns
\* FutureSlot, at or before the finalized slot PastFinalizedSlot, each with the
\* two slots compared; a clock that cannot be read gives the internal error
\* UnableToReadSlot and none of the peer faults.
C30_TimingWindow ==
    (GossipCall /\ SubnetOk) =>
        LET slot == arg.blob_sidecar.slot
            finalized_slot == finalized_epoch * SlotsPerEpoch
        IN IF slot_clock = None
           THEN ret = UnableToReadSlot
           ELSE /\ ErrKind(ret) \notin TimingErrors <=> (finalized_slot < slot /\ slot <= slot_clock[1])
                /\ slot > slot_clock[1] <=> ret = Err(BlobError("FutureSlot", "", slot, slot_clock[1]))
                /\ (slot <= slot_clock[1] /\ slot <= finalized_slot)
                      <=> ret = Err(BlobError("PastFinalizedSlot", "", slot, finalized_slot))
                /\ ret # UnableToReadSlot

\* A sidecar of the latest permissible slot, one past the finalized slot, is accepted.
C30_Witness ==
    /\ GossipCall /\ SubnetOk
    /\ slot_clock = Some(arg.blob_sidecar.slot)
    /\ arg.blob_sidecar.slot = finalized_epoch * SlotsPerEpoch + 1
    /\ IsOk(ret)

\* ---------------------------------------------------------------- fetch pipeline claims, continued
\* Where in the log the events of a name stand.
PositionsOf(name) == {i \in 1..Len(fetch_log) : fetch_log[i].ev = name}

\* C31: a call that spawns no column build and calls persistence has, before
\* that call, published once the plain sidecars it built, those of the list it
\* hands over; and no call calls persistence more than once, a call past
\* commit having called it exactly once.
C31_PublishBeforePersist ==
    /\ Len(Persisted) <= 1
    /\ fetch_pc = "process_engine_blobs" => Len(Persisted) = 1
    /\ (fetch_pc = "returned" /\ IsOk(ret) /\ EngineAnswered /\ NumReturned > 0) => Len(Persisted) = 1
    /\ (Committed /\ Spawned = <<>>) =>
           /\ PartialFetch \/ ~arg.peer_das_enabled
           /\ Len(Published) = 1
           /\ Published[1].kind = "Blobs"
           /\ Published[1].items = populated(Persisted[1].items)
           /\ \A i \in PositionsOf("publish"), j \in PositionsOf("process_engine_blobs") : i < j

\* All blobs of a block fetched with redundancy coding disabled, and persisted.
C31_Witness ==
    /\ Committed /\ Spawned = <<>>
    /\ ~arg.peer_das_enabled
    /\ NumDeclared = 2 /\ BuiltAt = {1, 2}
    /\ Len(Published[1].items) = 2
    /\ fetch_pc = "returned" /\ IsOk(ret)

\* C32: a call sends on its channel at most once, and the channel is empty
\* until then, so never full at the send; a send that failed found the
\* receiver dropped, a send that succeeded left its columns in the channel;
\* and after the send, failed or not, the task goes on: a supernode's task
\* that has ended after a send has published the columns.
C32_SingleSend ==
    /\ Len(Sent) <= 1
    /\ (data_columns_channel # NoChannel /\ Sent = <<>>) => data_columns_channel.buffer = <<>>
    /\ \A i \in 1..Len(Sent) :
          /\ Sent[i].kind = "Err" => data_columns_channel.receiver = "dropped"
          /\ Sent[i].kind = "Ok" => data_columns_channel.buffer = <<Sent[i].items>>
    /\ build_pc = "sent" => ENABLED BuildPublish
    /\ (Sent # <<>> /\ build_pc = "finished" /\ arg.is_supernode) =>
           /\ Len(Published) = 1
           /\ Published[1].kind = "DataColumns"
           /\ Published[1].items = Sent[1].items

\* The call had returned when the task sent: the send failed, the supernode published.
C32_Witness ==
    /\ Len(Sent) = 1 /\ Sent[1].kind = "Err"
    /\ build_pc = "finished" /\ arg.is_supernode
    /\ Len(Published) = 1 /\ Published[1].kind = "DataColumns"
    /\ data_columns_channel.buffer = <<>>

\* The positions whose blob came back but whose sidecar is not in the list.
FailedAt == ReturnedAt \ BuiltAt
\* The answer with every blob that failed replaced by one that builds.
Healed == [j \in 1..Len(Response) |-> IF Response[j] = "bad" THEN "ok" ELSE Response[j]]
EventShapes(events) == [i \in 1..Len(events) |-> <<events[i].ev, events[i].kind>>]

\* C33: a returned blob whose sidecar cannot be built, or whose position lies
\* beyond the list, leaves only its own slot empty and changes nothing else:
\* the call takes the path, returns the result and does the things it would
\* with every sidecar built, the other slots hold the same sidecars, and what
\* is published as plain blobs, given to the column build and handed to
\* persistence holds exactly the sidecars that could be built.
C33_ConstructionFailureSkipped ==
    (EngineAnswered /\ NumReturned > 0) =>
        /\ \A header_ok \in BOOLEAN, spawn_ok \in BOOLEAN :
              LET out == fetch_on_response(NumDeclared, Response, arg.peer_das_enabled, header_ok, kzg, spawn_ok)
                  all == fetch_on_response(NumDeclared, Healed, arg.peer_das_enabled, header_ok, kzg, spawn_ok)
              IN /\ out.pc = all.pc /\ out.ret = all.ret /\ out.build_pc = all.build_pc
                 /\ EventShapes(out.events) = EventShapes(all.events)
                 /\ out.list # <<>> =>
                        \A j \in 1..MaxBlobsPerBlock :
                            out.list[j] = IF j \in FailedAt THEN None ELSE all.list[j]
        /\ fixed_blob_sidecar_list # <<>> =>
               /\ PopulatedSlots(fixed_blob_sidecar_list) = BuiltAt
               /\ \A j \in BuiltAt : fixed_blob_sidecar_list[j] = Some([index |-> j - 1])
        /\ \A i \in 1..Len(Persisted) : Persisted[i].items = fixed_blob_sidecar_list
        /\ \A i \in 1..Len(Spawned) : Spawned[i].items = populated(fixed_blob_sidecar_list)
        /\ \A i \in 1..Len(Published) :
              Published[i].kind = "Blobs" => Published[i].items = populated(fixed_blob_sidecar_list)

\* Of three blobs the second cannot be built; the other two are published and persisted.
C33_Witness ==
    /\ EngineAnswered /\ fetch_pc = "returned" /\ IsOk(ret)
    /\ Response = <<"ok", "bad", "ok">>
    /\ Len(Published) = 1 /\ Len(Published[1].items) = 2
    /\ Len(Persisted) = 1 /\ PopulatedSlots(Persisted[1].items) = {1, 3}

\* The validator called now, with the chain as it is and the same answers of
\* the lookups, on any sidecar.
ValidateNow(blob_sidecar) ==
    validate_blob_sidecar_for_gossip(blob_sidecar, arg.subnet, slot_clock, finalized_epoch, arg.cache_entry, arg.state_proposer, arg.pubkey_lock, validator_pubkey_cache, fork_choice, early_attester_cache)

\* Another sidecar of the same proposer, slot and index as the one validated,
\* which passes the six checks where the validated one did.
Rivals ==
    {s \in SignedBlobSidecars :
        /\ s # arg.blob_sidecar
        /\ s.proposer_index = arg.blob_sidecar.proposer_index
        /\ s.slot = arg.blob_sidecar.slot
        /\ s.index = arg.blob_sidecar.index
        /\ s.signer = s.proposer_index
        /\ s.block_root \in fork_choice \/ early_attester_cache = Some(s.block_root)}

GossipMessageSlot ==
    IF op = "validate_blob_for_gossip"
    THEN Unwrap(arg.wrapper.blobs_sidecar).beacon_block_slot
    ELSE arg.blob_sidecar.slot
FutureSlotReturned ==
    /\ op \in {"validate_blob_for_gossip", "validate_blob_sidecar_for_gossip"}
    /\ ErrKind(ret) = "FutureSlot"

\* C35: in every FutureSlot error of either gossip validator message_slot is
\* the slot of the offending message and latest_permissible_slot the clock's
\* tolerance limit, so message_slot is the greater of the two.
C35_AsClaimed ==
    FutureSlotReturned =>
        /\ ret.err[1].a = GossipMessageSlot
        /\ ret.err[1].b = Unwrap(slot_clock)
        /\ ret.err[1].a > ret.err[1].b

\* validate_blob_for_gossip returned a FutureSlot whose message_slot is the
\* clock's limit and whose latest_permissible_slot is the bundle's slot.
C35_FieldsSwapped ==
    /\ op = "validate_blob_for_gossip" /\ ErrKind(ret) = "FutureSlot"
    /\ slot_clock # None
    /\ ret.err[1].a = Unwrap(slot_clock)
    /\ ret.err[1].b = GossipMessageSlot
    /\ ret.err[1].a < ret.err[1].b

\* Persistence is waiting on the receiver it was handed.
PersistenceWaiting ==
    /\ fetch_pc = "process_engine_blobs"
    /\ data_columns_channel.receiver = "waiting"
\* The wait can end: the columns are in the channel, the channel is closed, or
\* the task that holds the sender has its send or its end still before it.
WaitCanEnd ==
    \/ data_columns_channel.buffer # <<>>
    \/ data_columns_channel.sender = "dropped"
    \/ data_columns_channel.sender = "task" /\ build_pc \in {"spawned", "built", "sent"}

\* C36: whenever persistence waits on the receiver there are columns in the
\* channel, or the channel is closed, or the sender is with a task that still
\* sends or ends; no waiting persistence faces a live sender that never sends,
\* and a call suspended on persistence can always take a further step.
C36_AsClaimed ==
    /\ PersistenceWaiting => WaitCanEnd
    /\ fetch_pc = "process_engine_blobs" => ENABLED NextFetchWaits

\* No task was spawned, the sender is in the suspended call's own frame, the
\* channel is empty, persistence waits, and nothing can happen any more.
C36_SenderHeldByCaller ==
    /\ PersistenceWaiting
    /\ Spawned = <<>> /\ build_pc = "none"
    /\ data_columns_channel.sender = "fetch"
    /\ data_columns_channel.buffer = <<>>
    /\ ~ENABLED NextFetchWaits

\* Where a task was spawned the wait always ends.
C36_SpawnedPathDelivers ==
    (Spawned # <<>> /\ fetch_pc = "process_engine_blobs") => 
        /\ PersistenceWaiting => WaitCanEnd
        /\ ENABLED NextFetchWaits

\* C37: the blob list given to a spawned column build holds one blob for every
\* declared commitment, in commitment order.
C37_AsClaimed ==
    \A i \in 1..Len(Spawned) :
        /\ Len(Spawned[i].items) = NumDeclared
        /\ \A j \in 1..Len(Spawned[i].items) : Spawned[i].items[j].index = j - 1

\* Every declared blob came back and one sidecar could not be built: the task
\* was spawned on fewer blobs than the block declares.
C37_BuildOnFewerBlobs ==
    /\ EngineAnswered /\ Len(Response) = NumDeclared
    /\ \A j \in 1..Len(Response) : Response[j] # "none"
    /\ Len(Spawned) = 1
    /\ Len(Spawned[1].items) < NumDeclared
    /\ build_blobs = Spawned[1].items

\* With every returned sidecar built and an answer as long as the request the
\* build does get one blob per commitment.
C37_HoldsWithoutFailures ==
    (EngineAnswered /\ Len(Response) = NumDeclared /\ FailedAt = {}) => C37_AsClaimed

\* ---------------------------------------------------------------- light client claims
Store == Unwrap(store)
UpdateApplied == applied.count > 0
LastUpdate == Unwrap(applied.update)

C39_AsClaimed ==
    (sync_pc = "loop" /\ sync_frame.iterations > 0) =>
        sync_frame.finalized_period > sync_frame.period_before

\* The provider answered with an empty list, the iteration ended without an
\* error and without progress, and the loop's condition still holds.
C39_LoopWithoutProgress ==
    /\ sync_pc = "loop"
    /\ sync_frame.iterations = MaxSyncIterations
    /\ sync_frame.received = 0
    /\ sync_frame.finalized_period = sync_frame.period_before
    /\ sync_frame.finalized_period + 1 < sync_frame.current_period
    /\ ~ENABLED SyncReturn

\* Rotation: the update made the next committee the current one.
Rotated ==
    /\ UpdateApplied
    /\ Store.current_sync_committee = store_pre.next_sync_committee
    /\ Store.current_sync_committee # store_pre.current_sync_committee

\* C40: is_next_sync_committee_known() is true exactly when the next sync
\* committee is not the placeholder; it is false right after initialization;
\* the first applied update leaves the current committee and the counters
\* alone; a rotation happens only when the next committee was known and the
\* update's finalized period is the store's period plus one.
C40_AsClaimed ==
    /\ store # None =>
          (is_next_sync_committee_known(Store) <=> Store.next_sync_committee # SyncCommittee_temporary)
    /\ (store # None /\ ~UpdateApplied) => ~is_next_sync_committee_known(Store)
    /\ applied.count = 1 =>
          /\ Store.current_sync_committee = store_pre.current_sync_committee
          /\ Store.next_sync_committee = LastUpdate.next_sync_committee
    /\ Rotated =>
          /\ store_pre.next_sync_committee # SyncCommittee_temporary
          /\ sync_committee_period(LastUpdate.finalized_header.slot, SecondsPerSlot)
                = sync_committee_period(store_pre.finalized_header.slot, SecondsPerSlot) + 1

\* The first update after initialization found the placeholder as next
\* committee, was told it is known, and rotated it in as the current committee.
C40_PlaceholderRotatedIn ==
    /\ applied.count = 1
    /\ store_pre.next_sync_committee = SyncCommittee_temporary
    /\ is_next_sync_committee_known(store_pre)
    /\ store_pre.current_sync_committee # SyncCommittee_temporary
    /\ Store.current_sync_committee = SyncCommittee_temporary

====
